---- MODULE Spec2Model ----
(***************************************************************************)
(* Verification model of the insurance data pipeline:                      *)
(*   - DataManager (src/app/data_manager.py, src/data/data_manager.py):    *)
(*     table registry, lazy loader, cache, combiner;                       *)
(*   - calcular_premio / calcular_premio_atuarial: cascading record        *)
(*     selection;                                                          *)
(*   - AuxiliaryDataAnalyzer.get_integrated_risk_profile: risk score.      *)
(* A DataFrame is a record [cols, rows]; a cell is <<v>> or <<>> (NaN).    *)
(***************************************************************************)
EXTENDS Integers, Sequences, FiniteSets, TLC

VARIABLES
    variant,   \* which DataManager class the process runs: "app" or "data"
    configs,   \* self.configs: insertion-ordered sequence of [name, file_path]
    tables,    \* self.tables: cache key -> [gen, df]
    avail,     \* environment: the source keys that can be fetched right now
    loads,     \* per cache key: how many objects were ever stored under it
    ret,       \* outcome of the last operation
    view,      \* calculator: the rows of the DataFrame handed to the estimate
    query,     \* calculator: the arguments of the estimate
    est,       \* calculator: what the estimate returned
    acidentes, \* analyzer: table acidentes_2019, row -> number of such rows
    seguranca, \* analyzer: table seguranca_publica, a sequence of rows
    populacao, \* analyzer: table projecoes_populacao, a sequence of rows
    riskQuery, \* analyzer: the arguments of get_integrated_risk_profile
    risk,      \* analyzer: what get_integrated_risk_profile returned
    threads    \* threads inside get_table: thread -> [pc, name, df, fetched, status, got]

dmVars == <<variant, configs, tables, avail, loads, ret>>

estVars == <<view, query, est>>

riskVars == <<acidentes, seguranca, populacao, riskQuery, risk>>

conVars == <<threads>>

vars == <<dmVars, estVars, riskVars, conVars>>

(***************************************************************************)
(* Bounds                                                                  *)
(***************************************************************************)
MaxLoads == 2

MaxRows == 3

MaxFrameRows == 2

(***************************************************************************)
(* DataFrames                                                              *)
(***************************************************************************)
Null == <<>>

Cell(v) == <<v>>

EmptyFrame == [cols |-> {}, rows |-> <<>>]

\* df[c] = v for a scalar v: the column is added (or overwritten) in every row
SetColumn(df, c, v) ==
    [cols |-> df.cols \cup {c},
     rows |-> [i \in DOMAIN df.rows |->
                 [k \in (DOMAIN df.rows[i]) \cup {c} |->
                     IF k = c THEN Cell(v) ELSE df.rows[i][k]]]]

\* a row seen through the column set of the concatenation: missing cells are NaN
Reindex(row, cols) ==
    [c \in cols |-> IF c \in DOMAIN row THEN row[c] ELSE Null]

RECURSIVE ConcatCols(_)
ConcatCols(dfs) ==
    IF dfs = <<>> THEN {} ELSE Head(dfs).cols \cup ConcatCols(Tail(dfs))

RECURSIVE ConcatRows(_, _)
ConcatRows(dfs, cols) ==
    IF dfs = <<>> THEN <<>>
    ELSE [i \in DOMAIN Head(dfs).rows |-> Reindex(Head(dfs).rows[i], cols)]
         \o ConcatRows(Tail(dfs), cols)

RECURSIVE InnerCols(_)
InnerCols(dfs) ==
    IF Len(dfs) = 1 THEN Head(dfs).cols ELSE Head(dfs).cols \cap InnerCols(Tail(dfs))

\* mutant: join="inner", only the columns shared by all inputs survive
ConcatInnerJoin(dfs) ==
    [cols |-> InnerCols(dfs), rows |-> ConcatRows(dfs, InnerCols(dfs))]

\* pd.concat(dfs, ignore_index=True)
Concat(dfs) ==
    [cols |-> ConcatCols(dfs), rows |-> ConcatRows(dfs, ConcatCols(dfs))]

(***************************************************************************)
(* Names, locators and the static source snapshots                         *)
(***************************************************************************)
CacheKey == "casco_combined"

RegNames == {"casco_sem1", "casco_sem2", "casco0"}

Locators == {"casco_tratadoA", "casco_tratadoB"}

GetNames == RegNames \cup {CacheKey}

SourceKeys == RegNames \cup Locators

Dataset(key) ==
    IF key \in {"casco_sem1", "casco_tratadoA"} THEN
        [cols |-> {"modelo", "ano", "faixa_desc", "regiao_desc", "premio1"},
         rows |-> << [modelo |-> Cell("CIVIC"), ano |-> Cell(2020),
                      faixa_desc |-> Cell("18-25"),
                      regiao_desc |-> Cell(<<"S", "ã", "o", " ", "P", "a", "u", "l", "o">>),
                      premio1 |-> Cell(100)],
                     [modelo |-> Cell("UNO"), ano |-> Cell(2015),
                      faixa_desc |-> Cell("26-35"),
                      regiao_desc |-> Cell(<<"R", "J">>),
                      premio1 |-> Cell(80)] >>]
    ELSE IF key \in {"casco_sem2", "casco_tratadoB"} THEN
        [cols |-> {"modelo", "ano", "faixa_desc", "regiao_desc", "premio1", "freq_sin1"},
         rows |-> << [modelo |-> Cell("CIVIC"), ano |-> Cell(2020),
                      faixa_desc |-> Cell("18-25"),
                      regiao_desc |-> Cell(<<"S", "ã", "o", " ", "P", "a", "u", "l", "o">>),
                      premio1 |-> Cell(110), freq_sin1 |-> Cell(2)] >>]
    ELSE
        [cols |-> {"modelo"}, rows |-> << [modelo |-> Cell("GOL")] >>]

(***************************************************************************)
(* Registry                                                                *)
(***************************************************************************)
ConfigNames(cf) == {cf[i].name : i \in DOMAIN cf}

ConfigOf(cf, n) == cf[CHOOSE i \in DOMAIN cf : cf[i].name = n]

\* self.configs[config.name] = config  (a dict keeps the first insertion position)
RegisterTable(cf, n, loc) ==
    IF n \in ConfigNames(cf)
    THEN [i \in DOMAIN cf |-> IF cf[i].name = n THEN [name |-> n, file_path |-> loc] ELSE cf[i]]
    ELSE Append(cf, [name |-> n, file_path |-> loc])

\* _initialize_tables of each variant
InitialConfigs(v) ==
    IF v = "app"
    THEN << [name |-> "casco_sem1", file_path |-> "casco_tratadoA"],
            [name |-> "casco_sem2", file_path |-> "casco_tratadoB"] >>
    ELSE << [name |-> "casco0", file_path |-> "casco_tratadoA"] >>

(***************************************************************************)
(* Loader.  T = [tables, loads, fetched] is the part of the state a        *)
(* handler threads through its calls.                                      *)
(***************************************************************************)
\* what a table name is fetched by: the table name (HuggingFace loader) or
\* os.path.join(data_dir, config.file_path)
SourceKey(n) == IF variant = "app" THEN n ELSE ConfigOf(configs, n).file_path

\* hf_loader.load_csv(table_name) returns the dataset; it fails by raising
\* when the remote dataset cannot be fetched
HfLoadCsvSucceeds(table_name) == table_name \in avail

\* os.path.exists(file_path)
FileExists(file_path) == file_path \in avail

Fetchable(n) ==
    IF variant = "app" THEN HfLoadCsvSucceeds(n)
    ELSE FileExists(ConfigOf(configs, n).file_path)

Store(T, key, df) ==
    [T EXCEPT !.tables = (key :> [gen |-> T.loads[key] + 1, df |-> df]) @@ T.tables,
              !.loads = [T.loads EXCEPT ![key] = @ + 1]]

\* mutant: the cache check is missing, every call fetches and stores again
LoadTableNoCacheCheck(T, n) ==
    IF n \notin ConfigNames(configs) THEN [T |-> T, status |-> "NotRegistered"]
    ELSE IF ~Fetchable(n)
         THEN [T |-> [T EXCEPT !.fetched = Append(@, n)], status |-> "SourceUnavailable"]
         ELSE [T |-> Store([T EXCEPT !.fetched = Append(@, n)], n, Dataset(SourceKey(n))),
               status |-> "ok"]

\* mutant: a failed fetch leaves an empty placeholder in the cache
LoadTablePlaceholder(T, n) ==
    IF n \in DOMAIN T.tables THEN [T |-> T, status |-> "ok"]
    ELSE IF n \notin ConfigNames(configs) THEN [T |-> T, status |-> "NotRegistered"]
    ELSE IF ~Fetchable(n)
         THEN [T |-> Store([T EXCEPT !.fetched = Append(@, n)], n, EmptyFrame),
               status |-> "SourceUnavailable"]
         ELSE [T |-> Store([T EXCEPT !.fetched = Append(@, n)], n, Dataset(SourceKey(n))),
               status |-> "ok"]

LoadTable(T, n) ==
    IF n \in DOMAIN T.tables THEN [T |-> T, status |-> "ok"]
    ELSE IF n \notin ConfigNames(configs) THEN [T |-> T, status |-> "NotRegistered"]
    ELSE IF ~Fetchable(n)
         THEN [T |-> [T EXCEPT !.fetched = Append(@, n)], status |-> "SourceUnavailable"]
         ELSE [T |-> Store([T EXCEPT !.fetched = Append(@, n)], n, Dataset(SourceKey(n))),
               status |-> "ok"]

\* get_table: load when absent, then self.tables[table_name]
GetTable(T, n) ==
    IF n \in DOMAIN T.tables THEN [T |-> T, status |-> "ok"] ELSE LoadTable(T, n)

T0 == [tables |-> tables, loads |-> loads, fetched |-> <<>>]

NoValue == [gen |-> 0, df |-> EmptyFrame]

Result(op, arg, status, value, T) ==
    [op |-> op, arg |-> arg, status |-> status, value |-> value, fetched |-> T.fetched]

Commit(T) == /\ tables' = T.tables
             /\ loads' = T.loads

\* a freshly built DataManager of src/app that nothing was asked of
IdleDm ==
    /\ variant = "app"
    /\ configs = InitialConfigs("app")
    /\ tables = << >>
    /\ avail = {}
    /\ loads = [k \in GetNames |-> 0]
    /\ ret = [op |-> "init", arg |-> "", status |-> "ok", value |-> NoValue, fetched |-> <<>>]

(***************************************************************************)
(* Operations                                                              *)
(***************************************************************************)
Register(n, loc) ==
    /\ configs' = RegisterTable(configs, n, loc)
    /\ ret' = Result("register", n, "ok", NoValue, T0)
    /\ UNCHANGED <<variant, tables, avail, loads>>
    /\ UNCHANGED <<estVars, riskVars, conVars>>

Get(n) ==
    /\ loads[n] < MaxLoads
    /\ LET r == GetTable(T0, n) IN
         /\ Commit(r.T)
         /\ ret' = Result("get", n, r.status,
                          IF r.status = "ok" THEN r.T.tables[n] ELSE NoValue, r.T)
    /\ UNCHANGED <<variant, configs, avail>>
    /\ UNCHANGED <<estVars, riskVars, conVars>>

\* load_all_tables of src/app: every failure is caught and printed
RECURSIVE LoadAllApp(_, _)
LoadAllApp(T, names) ==
    IF names = <<>> THEN [T |-> T, status |-> "ok"]
    ELSE LoadAllApp(LoadTable(T, Head(names)).T, Tail(names))

\* load_all_tables of src/data: the first failure propagates
RECURSIVE LoadAllData(_, _)
LoadAllData(T, names) ==
    IF names = <<>> THEN [T |-> T, status |-> "ok"]
    ELSE LET r == LoadTable(T, Head(names)) IN
         IF r.status # "ok" THEN r ELSE LoadAllData(r.T, Tail(names))

LoadAllTables(T) ==
    LET names == [i \in DOMAIN configs |-> configs[i].name] IN
    IF variant = "app" THEN LoadAllApp(T, names) ELSE LoadAllData(T, names)

LoadAll ==
    /\ \A k \in GetNames : loads[k] < MaxLoads
    /\ LET r == LoadAllTables(T0) IN
         /\ Commit(r.T)
         /\ ret' = Result("load_all", "", r.status, NoValue, r.T)
    /\ UNCHANGED <<variant, configs, avail>>
    /\ UNCHANGED <<estVars, riskVars, conVars>>

\* "sem1" in table_name / "sem2" in table_name, over the names of the model
HasSem1(n) == n = "casco_sem1"

HasSem2(n) == n = "casco_sem2"

Periodo1 == "1o Semestre 2019"

Periodo2 == "2o Semestre 2019"

\* mutant: a table without a half-year marker gets its 0-based position
TagPeriodZeroBased(df, n, i, add_period_column) ==
    IF ~add_period_column THEN df
    ELSE IF HasSem1(n) THEN SetColumn(SetColumn(df, "periodo", Periodo1), "semestre", 1)
    ELSE IF HasSem2(n) THEN SetColumn(SetColumn(df, "periodo", Periodo2), "semestre", 2)
    ELSE SetColumn(SetColumn(df, "periodo", n), "semestre", i)

\* the body of the loop of combine_tables for the i-th name (i is 0-based)
TagPeriod(df, n, i, add_period_column) ==
    IF ~add_period_column THEN df
    ELSE IF HasSem1(n) THEN SetColumn(SetColumn(df, "periodo", Periodo1), "semestre", 1)
    ELSE IF HasSem2(n) THEN SetColumn(SetColumn(df, "periodo", Periodo2), "semestre", 2)
    ELSE SetColumn(SetColumn(df, "periodo", n), "semestre", i + 1)

\* combine_tables: dfs is the list built so far, i the 0-based position
RECURSIVE CombineFrom(_, _, _, _, _)
CombineFrom(T, names, i, add_period_column, dfs) ==
    IF i >= Len(names)
    THEN [T |-> T, status |-> "ok", df |-> Concat(dfs)]
    ELSE LET r == GetTable(T, names[i + 1]) IN
         IF r.status # "ok" THEN [T |-> r.T, status |-> r.status, df |-> EmptyFrame]
         ELSE CombineFrom(r.T, names, i + 1, add_period_column,
                          Append(dfs, TagPeriod(r.T.tables[names[i + 1]].df,
                                                names[i + 1], i, add_period_column)))

CombineTables(T, names, add_period_column) ==
    CombineFrom(T, names, 0, add_period_column, <<>>)

Combine(names, add_period_column) ==
    /\ variant = "app"
    /\ \A k \in GetNames : loads[k] < MaxLoads
    /\ LET r == CombineTables(T0, names, add_period_column) IN
         /\ Commit(r.T)
         /\ ret' = Result("combine", names, r.status, [gen |-> 0, df |-> r.df], r.T)
    /\ UNCHANGED <<variant, configs, avail>>
    /\ UNCHANGED <<estVars, riskVars, conVars>>

\* the try block of get_combined_casco_data
CombineBoth(T) ==
    LET r1 == GetTable(T, "casco_sem1") IN
    IF r1.status # "ok" THEN r1
    ELSE LET r2 == GetTable(r1.T, "casco_sem2") IN
         IF r2.status # "ok" THEN r2
         ELSE [T |-> Store(r2.T, CacheKey,
                       Concat(<< SetColumn(SetColumn(r2.T.tables["casco_sem1"].df,
                                                     "periodo", Periodo1), "semestre", 1),
                                 SetColumn(SetColumn(r2.T.tables["casco_sem2"].df,
                                                     "periodo", Periodo2), "semestre", 2) >>)),
               status |-> "ok"]

\* the fallback of the except block: first half-year alone
FirstHalfOnly(T) ==
    LET r == GetTable(T, "casco_sem1") IN
    IF r.status # "ok" THEN r
    ELSE [T |-> Store(r.T, CacheKey,
                      SetColumn(SetColumn(r.T.tables["casco_sem1"].df,
                                          "periodo", Periodo1), "semestre", 1)),
          status |-> "ok"]

\* mutant: no fallback to the first half-year, any failure gives pd.DataFrame()
GetCombinedNoFallback(T) ==
    IF CacheKey \in DOMAIN T.tables THEN [T |-> T, status |-> "ok"]
    ELSE [T |-> CombineBoth(T).T, status |-> "ok"]

\* get_combined_casco_data: never raises; value is the cached view or pd.DataFrame()
GetCombinedCascoData(T) ==
    IF CacheKey \in DOMAIN T.tables THEN [T |-> T, status |-> "ok"]
    ELSE LET b == CombineBoth(T) IN
         IF b.status = "ok" THEN b
         ELSE [T |-> FirstHalfOnly(b.T).T, status |-> "ok"]

GetCombined ==
    /\ variant = "app"
    /\ \A k \in GetNames : loads[k] < MaxLoads
    /\ LET r == GetCombinedCascoData(T0) IN
         /\ Commit(r.T)
         /\ ret' = Result("get_combined", "", r.status,
                          IF CacheKey \in DOMAIN r.T.tables
                          THEN r.T.tables[CacheKey] ELSE NoValue, r.T)
    /\ UNCHANGED <<variant, configs, avail>>
    /\ UNCHANGED <<estVars, riskVars, conVars>>

(***************************************************************************)
(* get_table of src/app called from several threads of the process (one    *)
(* per Streamlit session) on the one DataManager of get_data_manager.      *)
(* Nothing in load_table or get_table takes a lock, so the threads         *)
(* interleave between the statements; pc names the statement a thread is   *)
(* about to run.                                                           *)
(***************************************************************************)
Callers == {"t1", "t2"}

\* no thread is inside get_table
IdleCallers ==
    threads = [c \in Callers |->
                  [pc |-> "idle", name |-> "", df |-> EmptyFrame, fetched |-> FALSE,
                   status |-> "", got |-> NoValue]]

\* get_table line 98: if table_name not in self.tables
Call(c, n) ==
    /\ threads[c].pc = "idle"
    /\ threads' = [threads EXCEPT ![c] =
                      [@ EXCEPT !.name = n,
                                !.pc = IF n \in DOMAIN tables THEN "return" ELSE "load"]]
    /\ UNCHANGED <<dmVars, estVars, riskVars>>

\* load_table lines 60-64: the cache check and the registry check
LoadCheck(c) ==
    /\ threads[c].pc = "load"
    /\ threads' = [threads EXCEPT ![c] =
                      IF @.name \in DOMAIN tables THEN [@ EXCEPT !.pc = "return"]
                      ELSE IF @.name \notin ConfigNames(configs)
                           THEN [@ EXCEPT !.pc = "done", !.status = "NotRegistered"]
                           ELSE [@ EXCEPT !.pc = "fetch"]]
    /\ UNCHANGED <<dmVars, estVars, riskVars>>

\* load_table line 71: df = load_cached_csv(table_name)
Fetch(c) ==
    /\ threads[c].pc = "fetch"
    /\ threads' = [threads EXCEPT ![c] =
                      IF Fetchable(@.name)
                      THEN [@ EXCEPT !.pc = "store", !.fetched = TRUE,
                                     !.df = Dataset(SourceKey(threads[c].name))]
                      ELSE [@ EXCEPT !.pc = "done", !.fetched = TRUE,
                                     !.status = "SourceUnavailable"]]
    /\ UNCHANGED <<dmVars, estVars, riskVars>>

\* load_table line 72: self.tables[table_name] = df
StoreDf(c) ==
    /\ threads[c].pc = "store"
    /\ Commit(Store(T0, threads[c].name, threads[c].df))
    /\ threads' = [threads EXCEPT ![c].pc = "return"]
    /\ UNCHANGED <<variant, configs, avail, ret>>
    /\ UNCHANGED <<estVars, riskVars>>

\* get_table line 100: return self.tables[table_name]
Return(c) ==
    /\ threads[c].pc = "return"
    /\ threads' = [threads EXCEPT ![c] =
                      [@ EXCEPT !.pc = "done", !.status = "ok",
                                 !.got = tables[threads[c].name]]]
    /\ UNCHANGED <<dmVars, estVars, riskVars>>

(***************************************************************************)
(* Text.  A Python str is the sequence of its characters.                  *)
(***************************************************************************)
LowerChars == <<"a", "b", "c", "d", "e", "f", "g", "h", "i", "j", "k", "l", "m",
                "n", "o", "p", "q", "r", "s", "t", "u", "v", "w", "x", "y", "z">>

UpperChars == <<"A", "B", "C", "D", "E", "F", "G", "H", "I", "J", "K", "L", "M",
                "N", "O", "P", "Q", "R", "S", "T", "U", "V", "W", "X", "Y", "Z">>

Digits == <<"0", "1", "2", "3", "4", "5", "6", "7", "8", "9">>

IsIn(c, chars) == \E i \in DOMAIN chars : chars[i] = c

PosIn(c, chars) == CHOOSE i \in DOMAIN chars : chars[i] = c

UpperChar(c) == IF IsIn(c, LowerChars) THEN UpperChars[PosIn(c, LowerChars)] ELSE c

LowerChar(c) == IF IsIn(c, UpperChars) THEN LowerChars[PosIn(c, UpperChars)] ELSE c

IsLetter(c) == IsIn(c, LowerChars) \/ IsIn(c, UpperChars)

IsSpace(c) == c = " "

\* str.upper()
StrUpper(s) == [i \in DOMAIN s |-> UpperChar(s[i])]

\* sub in s
StrContains(s, sub) ==
    \E k \in 0..(Len(s) - Len(sub)) : SubSeq(s, k + 1, k + Len(sub)) = sub

\* str.strip()
RECURSIVE LStrip(_)
LStrip(s) == IF s # <<>> /\ IsSpace(Head(s)) THEN LStrip(Tail(s)) ELSE s

RECURSIVE RStrip(_)
RStrip(s) ==
    IF s # <<>> /\ IsSpace(s[Len(s)]) THEN RStrip(SubSeq(s, 1, Len(s) - 1)) ELSE s

StrStrip(s) == RStrip(LStrip(s))

\* str.title(): a letter is upper-cased after a non-letter, lower-cased after a letter
StrTitle(s) ==
    [i \in DOMAIN s |->
        IF i = 1 \/ ~IsLetter(s[i - 1]) THEN UpperChar(s[i]) ELSE LowerChar(s[i])]

\* the text before the first occurrence of the character sep (all of s without one)
RECURSIVE Before(_, _)
Before(s, sep) ==
    IF s = <<>> \/ Head(s) = sep THEN <<>> ELSE <<Head(s)>> \o Before(Tail(s), sep)

\* str.split(): the first whitespace-delimited token, <<>> when there is none
FirstToken(s) == Before(LStrip(s), " ")

\* int(s.replace(',', ''))
RECURSIVE ParseInt(_)
ParseInt(s) ==
    IF s = <<>> THEN 0
    ELSE IF s[Len(s)] = "," THEN ParseInt(SubSeq(s, 1, Len(s) - 1))
    ELSE ParseInt(SubSeq(s, 1, Len(s) - 1)) * 10 + (PosIn(s[Len(s)], Digits) - 1)

\* the sum of the values f[x] for x in S
RECURSIVE SumOver(_, _)
SumOver(S, f) ==
    IF S = {} THEN 0
    ELSE LET x == CHOOSE y \in S : TRUE IN f[x] + SumOver(S \ {x}, f)

(***************************************************************************)
(* AuxiliaryDataAnalyzer                                                   *)
(***************************************************************************)
Txt_VW_GOL == <<"V", "W", "/", "G", "O", "L">>

Txt_I_vw_golf == <<"I", "/", "v", "w", " ", "g", "o", "l", "f">>

Txt_vw_gol == <<"v", "w", " ", "g", "o", "l">>

Txt_FIAT_UNO == <<"F", "I", "A", "T", " ", "U", "N", "O">>

Txt_GM_CORSA == <<"G", "M", "/", "C", "O", "R", "S", "A">>

Txt_RioDeJaneiro == <<"R", "i", "o", " ", "d", "e", " ", "J", "a", "n", "e", "i", "r", "o">>

Txt_rio_padded == <<" ", "r", "i", "o", " ", "d", "e", " ", "j", "a", "n", "e", "i", "r", "o", " ">>

Txt_Bahia == <<"B", "a", "h", "i", "a">>

Txt_Roubo == <<"R", "o", "u", "b", "o">>

Txt_Furto == <<"F", "u", "r", "t", "o">>

Txt_RouboVeiculo == Txt_Roubo \o <<" ", "d", "e", " ", "v", "e", "i", "c", "u", "l", "o">>

Txt_FurtoVeiculo == Txt_Furto \o <<" ", "d", "e", " ", "v", "e", "i", "c", "u", "l", "o">>

Txt_RJ == <<"R", "J">>

Txt_rj == <<"r", "j">>

Txt_BA == <<"B", "A">>

\* self._mapa_estados.get(uf.upper(), uf), for the states of the model
MapaEstados(uf) ==
    IF StrUpper(uf) = Txt_RJ THEN Txt_RioDeJaneiro
    ELSE IF StrUpper(uf) = Txt_BA THEN Txt_Bahia
    ELSE uf

\* the rows of a table given as row -> count
RowKinds(bag) == {r \in DOMAIN bag : bag[r] > 0}

\* round(a / b) to an integer, the tie going to the even neighbour
RoundDiv(a, b) ==
    LET q == a \div b
        r == a % b
    IN  IF 2 * r > b \/ (2 * r = b /\ q % 2 = 1) THEN q + 1 ELSE q

\* df[col].value_counts() over the rows of a table kept as row -> count
ValueCounts(bag, rows, col) ==
    [v \in {r[col] : r \in rows} |-> SumOver({r \in rows : r[col] = v}, bag)]

\* .head(n) of a value_counts(): the n most frequent values
HeadCounts(counts, n) ==
    IF Cardinality(DOMAIN counts) <= n THEN counts
    ELSE LET top == CHOOSE S \in SUBSET DOMAIN counts :
                        /\ Cardinality(S) = n
                        /\ \A v \in S, w \in (DOMAIN counts) \ S : counts[v] >= counts[w]
         IN  [v \in top |-> counts[v]]

\* mutant: the not-found result carries a zero total
GetAccidentStatsByBrandZeroTotal(df_acidentes, marca) ==
    LET df_marca == {r \in RowKinds(df_acidentes) :
                        StrContains(StrUpper(r.marca), StrUpper(marca))}
        condutores == {r \in df_marca : r.tipo_envolvido = "Condutor"}
        n_condutores == SumOver(condutores, df_acidentes)
    IN  IF df_marca = {}
        THEN [encontrado |-> FALSE, marca |-> marca, total_acidentes |-> 0]
        ELSE [encontrado |-> TRUE, marca |-> marca,
              total_acidentes |-> SumOver(df_marca, df_acidentes),
              causas_principais |->
                  HeadCounts(ValueCounts(df_acidentes, df_marca, "causa_acidente"), 5),
              tipos_acidentes |->
                  HeadCounts(ValueCounts(df_acidentes, df_marca, "tipo_acidente"), 5),
              estados_maior_incidencia |->
                  HeadCounts(ValueCounts(df_acidentes, df_marca, "uf"), 5),
              idade_media_condutor |->
                  IF n_condutores = 0 THEN Null
                  ELSE Cell(RoundDiv(10 * SumOver(condutores,
                                         [r \in condutores |-> r.idade * df_acidentes[r]]),
                                     n_condutores)),
              distribuicao_sexo |-> ValueCounts(df_acidentes, condutores, "sexo")]

\* mutant: every statistic is taken over the driver rows only
GetAccidentStatsByBrandDriversOnly(df_acidentes, marca) ==
    LET df_marca == {r \in RowKinds(df_acidentes) :
                        StrContains(StrUpper(r.marca), StrUpper(marca))}
        condutores == {r \in df_marca : r.tipo_envolvido = "Condutor"}
        n_condutores == SumOver(condutores, df_acidentes)
    IN  IF df_marca = {}
        THEN [encontrado |-> FALSE, marca |-> marca]
        ELSE [encontrado |-> TRUE, marca |-> marca,
              total_acidentes |-> n_condutores,
              causas_principais |->
                  HeadCounts(ValueCounts(df_acidentes, condutores, "causa_acidente"), 5),
              tipos_acidentes |->
                  HeadCounts(ValueCounts(df_acidentes, condutores, "tipo_acidente"), 5),
              estados_maior_incidencia |->
                  HeadCounts(ValueCounts(df_acidentes, condutores, "uf"), 5),
              idade_media_condutor |->
                  IF n_condutores = 0 THEN Null
                  ELSE Cell(RoundDiv(10 * SumOver(condutores,
                                         [r \in condutores |-> r.idade * df_acidentes[r]]),
                                     n_condutores)),
              distribuicao_sexo |-> ValueCounts(df_acidentes, condutores, "sexo")]

\* get_accident_stats_by_brand: partial, case-insensitive match on marca; the
\* mean age is kept in tenths (round(idade_media, 1)), None is the empty cell
GetAccidentStatsByBrand(df_acidentes, marca) ==
    LET df_marca == {r \in RowKinds(df_acidentes) :
                        StrContains(StrUpper(r.marca), StrUpper(marca))}
        condutores == {r \in df_marca : r.tipo_envolvido = "Condutor"}
        n_condutores == SumOver(condutores, df_acidentes)
    IN  IF df_marca = {}
        THEN [encontrado |-> FALSE, marca |-> marca]
        ELSE [encontrado |-> TRUE, marca |-> marca,
              total_acidentes |-> SumOver(df_marca, df_acidentes),
              causas_principais |->
                  HeadCounts(ValueCounts(df_acidentes, df_marca, "causa_acidente"), 5),
              tipos_acidentes |->
                  HeadCounts(ValueCounts(df_acidentes, df_marca, "tipo_acidente"), 5),
              estados_maior_incidencia |->
                  HeadCounts(ValueCounts(df_acidentes, df_marca, "uf"), 5),
              idade_media_condutor |->
                  IF n_condutores = 0 THEN Null
                  ELSE Cell(RoundDiv(10 * SumOver(condutores,
                                         [r \in condutores |-> r.idade * df_acidentes[r]]),
                                     n_condutores)),
              distribuicao_sexo |-> ValueCounts(df_acidentes, condutores, "sexo")]

\* mutant: the year filter is missing
GetTheftStatsByStateAllYears(df_seg, estado, ano) ==
    LET estado_norm == StrTitle(StrStrip(estado))
        df_estado == SelectSeq(df_seg, LAMBDA r : StrTitle(StrStrip(r.estado)) = estado_norm)
        df_roubo == SelectSeq(df_estado, LAMBDA r : StrContains(r.tipo_crime, Txt_Roubo))
        df_furto == SelectSeq(df_estado, LAMBDA r : StrContains(r.tipo_crime, Txt_Furto))
        qty_roubo == [i \in DOMAIN df_roubo |-> ParseInt(df_roubo[i].quantidade)]
        qty_furto == [i \in DOMAIN df_furto |-> ParseInt(df_furto[i].quantidade)]
    IN  IF df_estado = <<>>
        THEN [encontrado |-> FALSE, estado |-> estado]
        ELSE [encontrado |-> TRUE, estado |-> estado_norm, ano |-> ano,
              total_roubos |-> SumOver(DOMAIN df_roubo, qty_roubo),
              total_furtos |-> SumOver(DOMAIN df_furto, qty_furto)]

\* get_theft_stats_by_state(estado, ano)
GetTheftStatsByState(df_seg, estado, ano) ==
    LET estado_norm == StrTitle(StrStrip(estado))
        df_estado == SelectSeq(df_seg, LAMBDA r : StrTitle(StrStrip(r.estado)) = estado_norm)
        df_ano == SelectSeq(df_estado, LAMBDA r : r.ano = ano)
        df_roubo == SelectSeq(df_ano, LAMBDA r : StrContains(r.tipo_crime, Txt_Roubo))
        df_furto == SelectSeq(df_ano, LAMBDA r : StrContains(r.tipo_crime, Txt_Furto))
        qty_roubo == [i \in DOMAIN df_roubo |-> ParseInt(df_roubo[i].quantidade)]
        qty_furto == [i \in DOMAIN df_furto |-> ParseInt(df_furto[i].quantidade)]
    IN  IF df_estado = <<>>
        THEN [encontrado |-> FALSE, estado |-> estado]
        ELSE [encontrado |-> TRUE, estado |-> estado_norm, ano |-> ano,
              total_roubos |-> SumOver(DOMAIN df_roubo, qty_roubo),
              total_furtos |-> SumOver(DOMAIN df_furto, qty_furto)]

\* a population cell: parsed when it is a str, taken as it is otherwise
PopValue(cell) == IF cell.is_str THEN ParseInt(cell.text) ELSE cell.number

\* get_population_by_state(sigla, ano); a share is kept as the exact fraction
\* num / den (den = 0: the share is 0)
GetPopulationByState(df_pop, sigla, ano) ==
    LET sigla_upper == StrUpper(sigla)
        df_estado == SelectSeq(df_pop, LAMBDA r : r.SIGLA = sigla_upper /\ r.ANO = ano)
        row == df_estado[1]
        pop_total == PopValue(row.POP_T)
        pop_jovem == PopValue(row.J15_17_T)
    IN  IF df_estado = <<>>
        THEN [encontrado |-> FALSE, sigla |-> sigla, ano |-> ano]
        ELSE [encontrado |-> TRUE, sigla |-> sigla_upper, ano |-> ano,
              populacao_total |-> pop_total,
              populacao_jovem_15_17 |-> pop_jovem,
              proporcao_jovens |->
                  IF pop_total > 0 THEN [num |-> pop_jovem * 100, den |-> pop_total]
                  ELSE [num |-> 0, den |-> 1]]

\* x.num / x.den > n
FractionAbove(x, n) == x.num > n * x.den

\* mutant: the largest accident adjustment is subtracted instead of added
AccidentBonusSignSlip(accident_stats) ==
    IF ~accident_stats.encontrado THEN 0
    ELSE IF accident_stats.total_acidentes > 1000 THEN 0 - 15
    ELSE IF accident_stats.total_acidentes > 500 THEN 10
    ELSE IF accident_stats.total_acidentes > 100 THEN 5
    ELSE 0

AccidentBonus(accident_stats) ==
    IF ~accident_stats.encontrado THEN 0
    ELSE IF accident_stats.total_acidentes > 1000 THEN 15
    ELSE IF accident_stats.total_acidentes > 500 THEN 10
    ELSE IF accident_stats.total_acidentes > 100 THEN 5
    ELSE 0

\* mutant: a state that is not found is charged as if its totals were unknown
TheftBonusNotFoundPenalty(theft_stats) ==
    IF ~theft_stats.encontrado THEN 10
    ELSE LET total_crimes == theft_stats.total_roubos + theft_stats.total_furtos IN
         IF total_crimes > 10000 THEN 20
         ELSE IF total_crimes > 5000 THEN 15
         ELSE IF total_crimes > 1000 THEN 10
         ELSE 0

\* mutant: the largest theft adjustment is 40
TheftBonusLarge(theft_stats) ==
    IF ~theft_stats.encontrado THEN 0
    ELSE LET total_crimes == theft_stats.total_roubos + theft_stats.total_furtos IN
         IF total_crimes > 10000 THEN 40
         ELSE IF total_crimes > 5000 THEN 15
         ELSE IF total_crimes > 1000 THEN 10
         ELSE 0

TheftBonus(theft_stats) ==
    IF ~theft_stats.encontrado THEN 0
    ELSE LET total_crimes == theft_stats.total_roubos + theft_stats.total_furtos IN
         IF total_crimes > 10000 THEN 20
         ELSE IF total_crimes > 5000 THEN 15
         ELSE IF total_crimes > 1000 THEN 10
         ELSE 0

\* mutant: a youth share of exactly 5 percent earns the adjustment
YouthBonusAtLeast(pop_stats) ==
    IF pop_stats.encontrado /\ ~FractionAbove([num |-> 5 * pop_stats.proporcao_jovens.den,
                                               den |-> 1],
                                              pop_stats.proporcao_jovens.num)
    THEN 5 ELSE 0

YouthBonus(pop_stats) ==
    IF pop_stats.encontrado /\ FractionAbove(pop_stats.proporcao_jovens, 5) THEN 5 ELSE 0

MinOf(a, b) == IF a < b THEN a ELSE b

\* mutant: a score of exactly 70 is labelled high
NivelRiscoFrom70(risk_score) ==
    IF risk_score >= 70 THEN "Alto" ELSE IF risk_score > 40 THEN "Medio" ELSE "Baixo"

NivelRisco(risk_score) ==
    IF risk_score > 70 THEN "Alto" ELSE IF risk_score > 40 THEN "Medio" ELSE "Baixo"

\* _generate_recommendation
GenerateRecommendation(risk_score) ==
    IF risk_score > 70 THEN "Cobertura completa"
    ELSE IF risk_score > 40 THEN "Cobertura intermediaria"
    ELSE "Cobertura basica"

Ano2019 == <<"2", "0", "1", "9">>

Ano2018 == <<"2", "0", "1", "8">>

Ano2025 == <<"2", "0", "2", "5">>

\* get_integrated_risk_profile(modelo, uf); modelo.split()[0] raises IndexError
\* when modelo holds no token
GetIntegratedRiskProfile(modelo, uf) ==
    LET marca == IF IsIn("/", modelo) THEN Before(modelo, "/") ELSE FirstToken(modelo)
        accident_stats == GetAccidentStatsByBrand(acidentes, marca)
        estado_nome == MapaEstados(uf)
        theft_stats == GetTheftStatsByState(seguranca, estado_nome, Ano2019)
        pop_stats == GetPopulationByState(populacao, uf, Ano2025)
        risk_score == MinOf(100, 50 + AccidentBonus(accident_stats)
                                    + TheftBonus(theft_stats) + YouthBonus(pop_stats))
    IN  IF ~IsIn("/", modelo) /\ FirstToken(modelo) = <<>>
        THEN [called |-> TRUE, raised |-> TRUE]
        ELSE [called |-> TRUE, raised |-> FALSE,
              modelo |-> modelo, uf |-> uf, estado |-> estado_nome,
              risk_score |-> risk_score,
              nivel_risco |-> NivelRisco(risk_score),
              dados_acidentes |-> accident_stats,
              dados_seguranca |-> theft_stats,
              dados_demografia |-> pop_stats,
              recomendacao |-> GenerateRecommendation(risk_score)]

NoRisk == [called |-> FALSE, raised |-> FALSE]

NoRiskQuery == [modelo |-> <<>>, uf |-> <<>>]

\* the analyzer was asked nothing
IdleRisk ==
    /\ acidentes = << >>
    /\ seguranca = <<>>
    /\ populacao = <<>>
    /\ riskQuery = NoRiskQuery
    /\ risk = NoRisk

(***************************************************************************)
(* Calculator: calcular_premio(df, modelo, ano, sexo, regiao_desc,         *)
(* faixa_desc) and the same cascade in calcular_premio_atuarial.           *)
(* A filtered DataFrame is the ascending sequence of the row positions it  *)
(* keeps.                                                                  *)
(***************************************************************************)
Modelos == {"CIVIC", "UNO"}

Faixas == {"18-25", "26-35"}

Txt_SaoPaulo == <<"S", "ã", "o", " ", "P", "a", "u", "l", "o">>

Txt_SP == <<"S", "P">>

Regioes == {Txt_SaoPaulo, Txt_RJ}

QueryModelos == Modelos \cup {"GOL"}

QueryFaixas == Faixas \cup {"25-30"}

QueryRegioes == Regioes \cup {Txt_SP \o <<" ", "-", " ">> \o Txt_SaoPaulo}

Anos == {2023, 1990, 2060}

Sexos == {"M", "F", "X"}

PolicyRows ==
    [modelo : Modelos, faixa_desc : Faixas, regiao_desc : Regioes, premio1 : {100}]

RECURSIVE SeqsUpTo(_, _)
SeqsUpTo(S, n) ==
    IF n = 0 THEN {<<>>}
    ELSE LET shorter == SeqsUpTo(S, n - 1) IN
         shorter \cup {Append(q, x) : q \in {r \in shorter : Len(r) = n - 1}, x \in S}

NoQuery == [modelo |-> "", ano |-> 0, sexo |-> "", regiao_desc |-> <<>>, faixa_desc |-> ""]

NoEst == [erro |-> FALSE, called |-> FALSE]

\* no estimate was asked for
IdleEst ==
    /\ view = <<>>
    /\ query = NoQuery
    /\ est = NoEst

AllRows(df) == [i \in 1..Len(df) |-> i]

\* df[df[col] == value] on an already filtered frame
FilterEq(df, idx, col, value) == SelectSeq(idx, LAMBDA i : df[i][col] = value)

\* mutant: an empty age-band scope is reported as an error instead of falling back
CascadeFaixaMut(df, modelo, regiao_desc, faixa_desc) ==
    LET df_modelo == FilterEq(df, AllRows(df), "modelo", modelo)
        df_faixa == FilterEq(df, df_modelo, "faixa_desc", faixa_desc)
        f2 == FilterEq(df, df_faixa, "regiao_desc", regiao_desc)
        df_regiao == IF f2 = <<>> THEN df_faixa ELSE f2
    IN  [erro |-> df_faixa = <<>>, df_regiao |-> df_regiao]

\* mutant: the region step falls back to the model scope, not to the age-band scope
CascadeRegiaoMut(df, modelo, regiao_desc, faixa_desc) ==
    LET df_modelo == FilterEq(df, AllRows(df), "modelo", modelo)
        f1 == FilterEq(df, df_modelo, "faixa_desc", faixa_desc)
        df_faixa == IF f1 = <<>> THEN df_modelo ELSE f1
        f2 == FilterEq(df, df_faixa, "regiao_desc", regiao_desc)
        df_regiao == IF f2 = <<>> THEN df_modelo ELSE f2
    IN  [erro |-> df_modelo = <<>>, df_regiao |-> df_regiao]

\* mutant: the region is narrowed before the age-band
CascadeRegiaoFirst(df, modelo, regiao_desc, faixa_desc) ==
    LET df_modelo == FilterEq(df, AllRows(df), "modelo", modelo)
        f1 == FilterEq(df, df_modelo, "regiao_desc", regiao_desc)
        df_regiao == IF f1 = <<>> THEN df_modelo ELSE f1
        f2 == FilterEq(df, df_regiao, "faixa_desc", faixa_desc)
        df_faixa == IF f2 = <<>> THEN df_regiao ELSE f2
    IN  [erro |-> df_modelo = <<>>, df_regiao |-> df_faixa]

\* the three filters with their fallbacks
Cascade(df, modelo, regiao_desc, faixa_desc) ==
    LET df_modelo == FilterEq(df, AllRows(df), "modelo", modelo)
        f1 == FilterEq(df, df_modelo, "faixa_desc", faixa_desc)
        df_faixa == IF f1 = <<>> THEN df_modelo ELSE f1
        f2 == FilterEq(df, df_faixa, "regiao_desc", regiao_desc)
        df_regiao == IF f2 = <<>> THEN df_faixa ELSE f2
    IN  [erro |-> df_modelo = <<>>, df_regiao |-> df_regiao]

\* mutant: the total over the columns is not divided by their number
MeanOverTotal(registro, cols) ==
    IF cols = {} THEN [num |-> 0, den |-> 1, nan |-> FALSE]
    ELSE IF \E c \in cols : c \notin DOMAIN registro
         THEN [num |-> 0, den |-> 1, nan |-> TRUE]
         ELSE [num |-> SumOver(cols, registro), den |-> 1, nan |-> FALSE]

\* sum(registro.get(c, 0) for c in cols) / len(cols) if cols else 0, kept as
\* the exact fraction num / den; a row without a value for one of the columns
\* holds NaN there and the mean is NaN
MeanOver(registro, cols) ==
    IF cols = {} THEN [num |-> 0, den |-> 1, nan |-> FALSE]
    ELSE IF \E c \in cols : c \notin DOMAIN registro
         THEN [num |-> 0, den |-> 1, nan |-> TRUE]
         ELSE [num |-> SumOver(cols, registro), den |-> Cardinality(cols), nan |-> FALSE]

\* mutant: the region is recognised by the name of the state
FatorRegiaoByName(regiao_desc) ==
    IF StrContains(regiao_desc, Txt_SaoPaulo) THEN 115
    ELSE IF StrContains(regiao_desc, Txt_RioDeJaneiro) THEN 122
    ELSE 100

\* mutant: a descriptor with both codes gets both multipliers
FatorRegiaoBoth(regiao_desc) ==
    IF StrContains(regiao_desc, Txt_SP) /\ StrContains(regiao_desc, Txt_RJ) THEN 140
    ELSE IF StrContains(regiao_desc, Txt_SP) THEN 115
    ELSE IF StrContains(regiao_desc, Txt_RJ) THEN 122
    ELSE 100

\* the multiplier for regiao_desc, in hundredths: 1.15, 1.22 or none
FatorRegiao(regiao_desc) ==
    IF StrContains(regiao_desc, Txt_SP) THEN 115
    ELSE IF StrContains(regiao_desc, Txt_RJ) THEN 122
    ELSE 100

\* round(x, digits) of the fraction x: the value in units of 10^-digits, as
\* a cell; NaN stays NaN
RoundTo(x, scale) ==
    IF x.nan THEN Null
    ELSE IF x.den % scale = 0 THEN Cell(RoundDiv(x.num, x.den \div scale))
    ELSE Cell(RoundDiv(x.num * scale, x.den))

\* calcular_premio_atuarial over the frame df that
\* get_combined_casco_data_local returned; calcular_premio of src/insurance
\* runs the same steps and returns the same fields up to severidade.
\* registro_pos and registro are the local registro and its position in df;
\* the factors are kept in hundredths; freq_cols and inden_cols are the
\* columns with "freq_sin" / "indeniz" in their names.
CalcularPremio(df, modelo, ano, sexo, regiao_desc, faixa_desc) ==
    LET c == Cascade(df, modelo, regiao_desc, faixa_desc)
        registro == df[c.df_regiao[1]]
        columns == UNION {DOMAIN df[i] : i \in DOMAIN df}
        premio_hist ==
            IF "premio1" \in DOMAIN registro
            THEN [num |-> registro["premio1"], den |-> 1, nan |-> FALSE]
            ELSE [num |-> 0, den |-> 1, nan |-> "premio1" \in columns]
        freq_cols == columns \cap {"freq_sin1", "freq_sin2"}
        inden_cols == columns \cap {"indeniz1", "indeniz2"}
        frequencia_media == MeanOver(registro, freq_cols)
        severidade_media == MeanOver(registro, inden_cols)
        base ==
            IF /\ ~frequencia_media.nan /\ frequencia_media.num > 0
               /\ ~severidade_media.nan /\ severidade_media.num > 0
            THEN [num |-> frequencia_media.num * severidade_media.num,
                  den |-> frequencia_media.den * severidade_media.den, nan |-> FALSE]
            ELSE premio_hist
        f == (2025 - ano) + 90
        fator_idade == IF f > 120 THEN 120 ELSE IF f < 70 THEN 70 ELSE f
        fator_sexo == IF sexo = "M" THEN 110 ELSE IF sexo = "F" THEN 97 ELSE 100
        premio_estimado ==
            [num |-> base.num * fator_idade * fator_sexo * FatorRegiao(regiao_desc),
             den |-> base.den * 1000000, nan |-> base.nan]
    IN  IF c.erro
        THEN [erro |-> TRUE, called |-> TRUE, mensagem |-> modelo]
        ELSE [erro |-> FALSE, called |-> TRUE,
              modelo |-> modelo, ano |-> ano, sexo |-> sexo,
              regiao |-> regiao_desc, faixa |-> faixa_desc,
              premio_estimado |-> RoundTo(premio_estimado, 100),
              premio_historico |-> RoundTo(premio_hist, 100),
              frequencia |-> RoundTo(frequencia_media, 1000000),
              severidade |-> RoundTo(severidade_media, 100),
              registro_utilizado |-> [i \in DOMAIN c.df_regiao |-> df[c.df_regiao[i]]],
              periodo_dados |-> IF "periodo" \in DOMAIN registro THEN registro["periodo"]
                                ELSE "Nao especificado",
              registro_pos |-> c.df_regiao[1],
              registro |-> registro]

Estimate(modelo, ano, sexo, regiao_desc, faixa_desc) ==
    /\ ~est.called
    /\ query' = [modelo |-> modelo, ano |-> ano, sexo |-> sexo,
                 regiao_desc |-> regiao_desc, faixa_desc |-> faixa_desc]
    /\ est' = CalcularPremio(view, modelo, ano, sexo, regiao_desc, faixa_desc)
    /\ UNCHANGED view
    /\ UNCHANGED <<dmVars, riskVars, conVars>>

InitEstimate ==
    /\ IdleDm
    /\ view \in SeqsUpTo(PolicyRows, MaxRows)
    /\ query = NoQuery
    /\ est = NoEst
    /\ IdleRisk
    /\ IdleCallers

NextEstimate ==
    \E modelo \in QueryModelos, ano \in Anos, sexo \in Sexos,
       regiao_desc \in QueryRegioes, faixa_desc \in QueryFaixas :
        Estimate(modelo, ano, sexo, regiao_desc, faixa_desc)

SpecEstimate == InitEstimate /\ [][NextEstimate]_vars

(***************************************************************************)
(* Estimates over views that carry claim-frequency and indemnity columns   *)
(***************************************************************************)
\* rows of one model, each column of loss data present or not; a column that
\* only the other row of the view has is NaN in the record
LossRows ==
    {[modelo |-> "CIVIC", faixa_desc |-> "18-25", regiao_desc |-> Txt_RJ, premio1 |-> 100]
        @@ f1 @@ f2 @@ i1 @@ i2 :
        f1 \in {<< >>} \cup {[freq_sin1 |-> v] : v \in {0, 2, -1}},
        f2 \in {<< >>, [freq_sin2 |-> 4]},
        i1 \in {<< >>} \cup {[indeniz1 |-> v] : v \in {0, 50}},
        i2 \in {<< >>, [indeniz2 |-> 150]}}

InitLoss ==
    /\ IdleDm
    /\ view \in {<<a>> : a \in LossRows} \cup {<<a, b>> : a, b \in LossRows}
    /\ query = NoQuery
    /\ est = NoEst
    /\ IdleRisk
    /\ IdleCallers

NextLoss ==
    \E ano \in Anos, sexo \in Sexos,
       regiao_desc \in {Txt_RJ, Txt_SaoPaulo, Txt_RJ \o <<"/">> \o Txt_SP} :
        Estimate("CIVIC", ano, sexo, regiao_desc, "18-25")

SpecLoss == InitLoss /\ [][NextLoss]_vars

(***************************************************************************)
(* combine_tables over arbitrary cached tables                             *)
(***************************************************************************)
ModeloValues == {"CIVIC", "UNO"}

Premio1Values == {100, 80}

TypedRows(cols) ==
    IF cols = {"modelo"} THEN {[modelo |-> Cell(m)] : m \in ModeloValues}
    ELSE IF cols = {"premio1"} THEN {[premio1 |-> Cell(p)] : p \in Premio1Values}
    ELSE {[modelo |-> Cell(m), premio1 |-> Cell(p)] : m \in ModeloValues, p \in Premio1Values}

Frames ==
    {EmptyFrame} \cup
    UNION {{[cols |-> cols, rows |-> rows] : rows \in SeqsUpTo(TypedRows(cols), MaxFrameRows)} :
              cols \in (SUBSET {"modelo", "premio1"}) \ {{}}}

CombineNames == {"casco_sem1", "casco0"}

InitCombine ==
    /\ variant = "app"
    /\ configs = RegisterTable(InitialConfigs(variant), "casco0", "casco_tratadoA")
    /\ \E A \in Frames, B \in Frames :
         tables = ("casco_sem1" :> [gen |-> 1, df |-> A]) @@ ("casco0" :> [gen |-> 1, df |-> B])
    /\ avail = {}
    /\ loads = [k \in GetNames |-> IF k \in CombineNames THEN 1 ELSE 0]
    /\ ret = Result("init", "", "ok", NoValue, T0)
    /\ IdleEst
    /\ IdleRisk
    /\ IdleCallers

NextCombine ==
    \E a, b \in CombineNames, tag \in BOOLEAN : Combine(<<a, b>>, tag)

SpecCombine == InitCombine /\ [][NextCombine]_vars

(***************************************************************************)
(* get_integrated_risk_profile over the contents of the three tables       *)
(***************************************************************************)
Txt(n) ==
    IF n = 0 THEN <<"0">>
    ELSE IF n = 1 THEN <<"1">>
    ELSE IF n = 1000 THEN <<"1", "0", "0", "0">>
    ELSE IF n = 5000 THEN <<"5", "0", "0", "0">>
    ELSE IF n = 10000 THEN <<"1", "0", "0", "0", "0">>
    ELSE IF n = 50001 THEN <<"5", "0", ",", "0", "0", "1">>
    ELSE <<"1", ",", "0", "0", "0", ",", "0", "0", "0">>

AccidentRowA ==
    [marca |-> Txt_VW_GOL, tipo_envolvido |-> "Condutor", causa_acidente |-> "Velocidade",
     tipo_acidente |-> "Colisao", uf |-> "RJ", idade |-> 30, sexo |-> "M"]

AccidentRowB ==
    [marca |-> Txt_I_vw_golf, tipo_envolvido |-> "Passageiro", causa_acidente |-> "Chuva",
     tipo_acidente |-> "Colisao", uf |-> "SP", idade |-> 10, sexo |-> "F"]

AccidentRowC ==
    [marca |-> Txt_GM_CORSA, tipo_envolvido |-> "Condutor", causa_acidente |-> "Chuva",
     tipo_acidente |-> "Capotamento", uf |-> "RJ", idade |-> 51, sexo |-> "F"]

AccidentTables ==
    {(AccidentRowA :> a) @@ (AccidentRowB :> b) @@ (AccidentRowC :> c) :
        a \in {0, 1, 100, 500, 1000}, b \in {0, 1}, c \in {0, 1}}

CrimeRow(estado, tipo_crime, ano, q) ==
    [estado |-> estado, tipo_crime |-> tipo_crime, ano |-> ano, quantidade |-> Txt(q)]

\* at most one row of each kind, each with a quantity of its own
CrimeTables ==
    {r1 \o r2 \o r3 \o r4 :
        r1 \in {<<>>} \cup {<<CrimeRow(Txt_rio_padded, Txt_RouboVeiculo, Ano2019, q)>> :
                               q \in {1000, 5000, 10000}},
        r2 \in {<<>>} \cup {<<CrimeRow(Txt_RioDeJaneiro, Txt_FurtoVeiculo, Ano2019, q)>> :
                               q \in {0, 1}},
        r3 \in {<<>>} \cup {<<CrimeRow(Txt_RioDeJaneiro, Txt_RouboVeiculo, Ano2018, 10000)>>},
        r4 \in {<<>>} \cup {<<CrimeRow(Txt_Bahia, Txt_RouboVeiculo, Ano2019, 5000)>>}}

IntCell(n) == [is_str |-> FALSE, text |-> <<>>, number |-> n]

StrCell(n) == [is_str |-> TRUE, text |-> Txt(n), number |-> 0]

PopulationTables ==
    {<<>>} \cup
    {<<[SIGLA |-> Txt_RJ, ANO |-> ano, POP_T |-> t, J15_17_T |-> j]>> :
        ano \in {Ano2025, Ano2019},
        t \in {IntCell(1000000), StrCell(1000000), IntCell(0)},
        j \in {IntCell(50000), StrCell(50001)}}

RiskModelos == {Txt_VW_GOL, Txt_vw_gol, Txt_FIAT_UNO, <<" ">>}

RiskUfs == {Txt_RJ, Txt_rj, Txt_BA}

RiskProfile(modelo, uf) ==
    /\ ~risk.called
    /\ riskQuery' = [modelo |-> modelo, uf |-> uf]
    /\ risk' = GetIntegratedRiskProfile(modelo, uf)
    /\ UNCHANGED <<acidentes, seguranca, populacao>>
    /\ UNCHANGED <<dmVars, estVars, conVars>>

InitRisk ==
    /\ IdleDm
    /\ IdleEst
    /\ acidentes \in AccidentTables
    /\ seguranca \in CrimeTables
    /\ populacao \in PopulationTables
    /\ riskQuery = NoRiskQuery
    /\ risk = NoRisk
    /\ IdleCallers

NextRisk == \E modelo \in RiskModelos, uf \in RiskUfs : RiskProfile(modelo, uf)

SpecRisk == InitRisk /\ [][NextRisk]_vars

(***************************************************************************)
(* Two threads asking the fresh DataManager of src/app for tables          *)
(***************************************************************************)
InitConcurrent ==
    /\ variant = "app"
    /\ configs = InitialConfigs(variant)
    /\ tables = << >>
    /\ avail \in SUBSET {"casco_sem1", "casco_sem2"}
    /\ loads = [k \in GetNames |-> 0]
    /\ ret = Result("init", "", "ok", NoValue, T0)
    /\ IdleEst
    /\ IdleRisk
    /\ IdleCallers

NextConcurrent ==
    \E c \in Callers :
        \/ \E n \in RegNames : Call(c, n)
        \/ LoadCheck(c)
        \/ Fetch(c)
        \/ StoreDf(c)
        \/ Return(c)

SpecConcurrent == InitConcurrent /\ [][NextConcurrent]_vars

\* the environment: a source file or remote dataset appears or disappears
SourceChange(k) ==
    /\ k \in (IF variant = "app" THEN RegNames ELSE Locators)
    /\ avail' = IF k \in avail THEN avail \ {k} ELSE avail \cup {k}
    /\ ret' = Result("source_change", k, "ok", NoValue, T0)
    /\ UNCHANGED <<variant, configs, tables, loads>>
    /\ UNCHANGED <<estVars, riskVars, conVars>>

Init ==
    /\ variant \in {"app", "data"}
    /\ configs = InitialConfigs(variant)
    /\ tables = << >>
    /\ avail \in SUBSET (IF variant = "app" THEN RegNames ELSE Locators)
    /\ loads = [k \in GetNames |-> 0]
    /\ ret = Result("init", "", "ok", NoValue, T0)
    /\ IdleEst
    /\ IdleRisk
    /\ IdleCallers

Next ==
    \/ \E n \in RegNames, loc \in Locators : Register(n, loc)
    \/ \E n \in GetNames : Get(n)
    \/ LoadAll
    \/ \E a, b \in RegNames, tag \in BOOLEAN : Combine(<<a, b>>, tag)
    \/ GetCombined
    \/ \E k \in SourceKeys : SourceChange(k)

Spec == Init /\ [][Next]_vars

(***************************************************************************)
(* The application over the DataManager: the calculator page                *)
(* (calcular_premio_atuarial), the chat enricher (ContextEnricher) and the *)
(* filter queries.                                                         *)
(***************************************************************************)
StrLower(s) == [i \in DOMAIN s |-> LowerChar(s[i])]

\* the characters of a model name of the datasets
Chars(modelo) ==
    IF modelo = "CIVIC" THEN <<"C", "I", "V", "I", "C">>
    ELSE IF modelo = "UNO" THEN <<"U", "N", "O">>
    ELSE IF modelo = "GOL" THEN <<"G", "O", "L">>
    ELSE <<>>

\* a < b for str, over names in capital letters
RECURSIVE StrLess(_, _)
StrLess(a, b) ==
    IF a = <<>> THEN b # <<>>
    ELSE IF b = <<>> THEN FALSE
    ELSE IF Head(a) = Head(b) THEN StrLess(Tail(a), Tail(b))
    ELSE PosIn(Head(a), UpperChars) < PosIn(Head(b), UpperChars)

\* the rows of a DataFrame as dicts of the values that are not NaN
Plain(df) ==
    [i \in DOMAIN df.rows |->
        [c \in {k \in DOMAIN df.rows[i] : df.rows[i][k] # Null} |-> df.rows[i][c][1]]]

\* df[df[column] == value], a new frame
FilterFrame(df, column, value) ==
    [cols |-> df.cols, rows |-> SelectSeq(df.rows, LAMBDA r : r[column] = Cell(value))]

\* the view that get_combined_casco_data returns: the cached one or pd.DataFrame()
CombinedView(T) ==
    IF CacheKey \in DOMAIN T.tables THEN T.tables[CacheKey].df ELSE EmptyFrame

\* mutant: the period columns are written to the cached tables (no .copy())
GetCombinedCascoDataLocalInPlace(T) ==
    LET Df1(U) == SetColumn(SetColumn(U.tables["casco_sem1"].df, "semestre", 1),
                            "periodo", Periodo1)
        Df2(U) == SetColumn(SetColumn(U.tables["casco_sem2"].df, "semestre", 2),
                            "periodo", Periodo2)
        Tagged(U, df1, df2) ==
            [T |-> [U EXCEPT !.tables["casco_sem1"].df = df1,
                             !.tables["casco_sem2"].df = df2],
             status |-> "ok", df |-> Concat(<<df1, df2>>)]
        Second(r2) ==
            IF r2.status # "ok" THEN [T |-> r2.T, status |-> r2.status, df |-> EmptyFrame]
            ELSE Tagged(r2.T, Df1(r2.T), Df2(r2.T))
        First(r1) ==
            IF r1.status # "ok" THEN [T |-> r1.T, status |-> r1.status, df |-> EmptyFrame]
            ELSE Second(GetTable(r1.T, "casco_sem2"))
    IN  First(GetTable(T, "casco_sem1"))

\* get_combined_casco_data_local: copies of both tables, tagged and concatenated;
\* nothing is memoized
GetCombinedCascoDataLocal(T) ==
    LET Df1(U) == SetColumn(SetColumn(U.tables["casco_sem1"].df, "semestre", 1),
                            "periodo", Periodo1)
        Df2(U) == SetColumn(SetColumn(U.tables["casco_sem2"].df, "semestre", 2),
                            "periodo", Periodo2)
        Second(r2) ==
            IF r2.status # "ok" THEN [T |-> r2.T, status |-> r2.status, df |-> EmptyFrame]
            ELSE [T |-> r2.T, status |-> "ok", df |-> Concat(<<Df1(r2.T), Df2(r2.T)>>)]
        First(r1) ==
            IF r1.status # "ok" THEN [T |-> r1.T, status |-> r1.status, df |-> EmptyFrame]
            ELSE Second(GetTable(r1.T, "casco_sem2"))
    IN  First(GetTable(T, "casco_sem1"))

\* get_calculator_context: the counts of its statistics; a KeyError of the
\* column lookups is caught by the caller, which keeps None
GetCalculatorContext(T, modelo, regiao_desc) ==
    LET Context(df_combined, df_modelo, df_regiao) ==
            IF {"modelo", "regiao_desc"} \subseteq df_combined.cols
               /\ (df_modelo.rows = <<>> \/ {"premio1", "semestre"} \subseteq df_combined.cols)
               /\ (df_regiao.rows = <<>> \/ "premio1" \in df_combined.cols)
            THEN [tabelas_usadas |-> <<"casco_sem1", "casco_sem2">>,
                  registros_modelo |-> Len(df_modelo.rows),
                  registros_regiao |-> Len(df_regiao.rows)]
            ELSE Null
        Stats(df_combined) ==
            Context(df_combined, FilterFrame(df_combined, "modelo", modelo),
                    FilterFrame(df_combined, "regiao_desc", regiao_desc))
        WithView(g) == [T |-> g.T, context |-> Stats(CombinedView(g.T))]
    IN  WithView(GetCombinedCascoData(T))

\* calcular_premio_atuarial through the DataManager T: the local combination,
\* the estimate, then the context and the risk profile, each under its own
\* try/except that leaves None; uf_map over the states of the model
CalcularPremioAtuarial(T, modelo, ano, sexo, regiao_desc, faixa_desc) ==
    LET uf == IF StrContains(regiao_desc, Txt_SaoPaulo) THEN Txt_SP
              ELSE IF StrContains(regiao_desc, Txt_RioDeJaneiro) THEN Txt_RJ
              ELSE IF StrContains(regiao_desc, Txt_Bahia) THEN Txt_BA
              ELSE <<>>
        Perfil(p) == IF uf = <<>> \/ p.raised THEN Null ELSE p
        Full(res, df, c) ==
            [T |-> c.T, status |-> "ok",
             value |-> [contexto_adicional |-> c.context,
                        stats_comparativas |->
                            [total_registros |-> Len(FilterFrame(df, "modelo", modelo).rows)],
                        perfil_risco |-> Perfil(GetIntegratedRiskProfile(Chars(modelo), uf))]
                       @@ res]
        Estimated(l, res) ==
            IF res.erro THEN [T |-> l.T, status |-> "ok", value |-> res]
            ELSE Full(res, l.df, GetCalculatorContext(l.T, modelo, regiao_desc))
        Loaded(l) ==
            IF l.status # "ok" THEN [T |-> l.T, status |-> l.status, value |-> NoEst]
            ELSE Estimated(l, CalcularPremio(Plain(l.df), modelo, ano, sexo,
                                             regiao_desc, faixa_desc))
    IN  Loaded(GetCombinedCascoDataLocal(T))

EstimateApp(modelo, ano, sexo, regiao_desc, faixa_desc) ==
    /\ \A k \in GetNames : loads[k] < MaxLoads
    /\ LET Done(r) == /\ Commit(r.T)
                      /\ ret' = Result("estimate", modelo, r.status, r.value, r.T)
       IN  Done(CalcularPremioAtuarial(T0, modelo, ano, sexo, regiao_desc, faixa_desc))
    /\ UNCHANGED <<variant, configs, avail>>
    /\ UNCHANGED <<estVars, riskVars, conVars>>

\* query_tables({table_name: {column: value}})
Query(table_name, column, value) ==
    /\ loads[table_name] < MaxLoads
    /\ LET Filtered(df) == IF column \in df.cols THEN FilterFrame(df, column, value) ELSE df
           Done(r) ==
               /\ Commit(r.T)
               /\ ret' = Result("query", table_name, r.status,
                                IF r.status # "ok" THEN NoValue
                                ELSE [gen |-> 0, df |-> Filtered(r.T.tables[table_name].df)],
                                r.T)
       IN  Done(GetTable(T0, table_name))
    /\ UNCHANGED <<variant, configs, avail>>
    /\ UNCHANGED <<estVars, riskVars, conVars>>

\* mutant: a pricing keyword decides the topic before a claims keyword
ExtractIntentPricingFirst(T, user_message) ==
    LET message_lower == StrLower(user_message)
        Mentions(words) == \E w \in words : StrContains(message_lower, w)
        UniqueValues(df) ==
            IF "modelo" \notin df.cols THEN {}
            ELSE {df.rows[i].modelo[1] :
                     i \in {j \in DOMAIN df.rows : df.rows[j].modelo # Null}}
        Found(modelos) == {m \in modelos : StrContains(message_lower, StrLower(Chars(m)))}
        Last(found) == CHOOSE m \in found : \A o \in found : o = m \/ StrLess(Chars(o), Chars(m))
        Intent(found, region, pricing, claims) ==
            [needs_data |-> found # {} \/ region \/ pricing \/ claims,
             tables_needed |->
                 [i \in 1..(Cardinality(found) + (IF region THEN 1 ELSE 0)
                                               + (IF pricing THEN 1 ELSE 0)) |-> "casco"],
             entities |-> IF found = {} THEN << >> ELSE ("modelo" :> Last(found)),
             query_type |-> IF pricing THEN "pricing"
                            ELSE IF claims THEN "claims" ELSE "general"]
        WithView(g) ==
            [T |-> g.T,
             intent |-> Intent(Found(UniqueValues(CombinedView(g.T))),
                               Mentions({<<"r", "e", "g", "i", "ã", "o">>,
                                         <<"r", "e", "g", "i", "a", "o">>,
                                         <<"s", "p">>,
                                         <<"r", "j">>,
                                         <<"m", "g">>}),
                               Mentions({<<"p", "r", "ê", "m", "i", "o">>,
                                         <<"p", "r", "e", "m", "i", "o">>,
                                         <<"p", "r", "e", "ç", "o">>,
                                         <<"p", "r", "e", "c", "o">>,
                                         <<"v", "a", "l", "o", "r">>,
                                         <<"c", "u", "s", "t", "o">>}),
                               Mentions({<<"s", "i", "n", "i", "s", "t", "r", "o">>,
                                         <<"a", "c", "i", "d", "e", "n", "t", "e">>,
                                         <<"c", "o", "l", "i", "s", "ã", "o">>,
                                         <<"r", "o", "u", "b", "o">>}))]
    IN  WithView(GetCombinedCascoData(T))

\* extract_intent: get_unique_values("casco", "modelo") reads (and memoizes)
\* the combined view; the loop over the sorted names keeps the last match
ExtractIntent(T, user_message) ==
    LET message_lower == StrLower(user_message)
        Mentions(words) == \E w \in words : StrContains(message_lower, w)
        UniqueValues(df) ==
            IF "modelo" \notin df.cols THEN {}
            ELSE {df.rows[i].modelo[1] :
                     i \in {j \in DOMAIN df.rows : df.rows[j].modelo # Null}}
        Found(modelos) == {m \in modelos : StrContains(message_lower, StrLower(Chars(m)))}
        Last(found) == CHOOSE m \in found : \A o \in found : o = m \/ StrLess(Chars(o), Chars(m))
        Intent(found, region, pricing, claims) ==
            [needs_data |-> found # {} \/ region \/ pricing \/ claims,
             tables_needed |->
                 [i \in 1..(Cardinality(found) + (IF region THEN 1 ELSE 0)
                                               + (IF pricing THEN 1 ELSE 0)) |-> "casco"],
             entities |-> IF found = {} THEN << >> ELSE ("modelo" :> Last(found)),
             query_type |-> IF claims THEN "claims"
                            ELSE IF pricing THEN "pricing" ELSE "general"]
        WithView(g) ==
            [T |-> g.T,
             intent |-> Intent(Found(UniqueValues(CombinedView(g.T))),
                               Mentions({<<"r", "e", "g", "i", "ã", "o">>,
                                         <<"r", "e", "g", "i", "a", "o">>,
                                         <<"s", "p">>,
                                         <<"r", "j">>,
                                         <<"m", "g">>}),
                               Mentions({<<"p", "r", "ê", "m", "i", "o">>,
                                         <<"p", "r", "e", "m", "i", "o">>,
                                         <<"p", "r", "e", "ç", "o">>,
                                         <<"p", "r", "e", "c", "o">>,
                                         <<"v", "a", "l", "o", "r">>,
                                         <<"c", "u", "s", "t", "o">>}),
                               Mentions({<<"s", "i", "n", "i", "s", "t", "r", "o">>,
                                         <<"a", "c", "i", "d", "e", "n", "t", "e">>,
                                         <<"c", "o", "l", "i", "s", "ã", "o">>,
                                         <<"r", "o", "u", "b", "o">>}))]
    IN  WithView(GetCombinedCascoData(T))

\* get_relevant_data(intent); sample is the order df_combined.sample() drew
GetRelevantData(T, intent, sample) ==
    LET Needed(name) == \E j \in DOMAIN intent.tables_needed : intent.tables_needed[j] = name
        has_modelo == "modelo" \in DOMAIN intent.entities
        Split(df_filtered) ==
            ("casco_filtered" :> df_filtered)
            @@ ("casco_sem1" :> FilterFrame(df_filtered, "semestre", 1))
            @@ ("casco_sem2" :> FilterFrame(df_filtered, "semestre", 2))
        Casco(df_combined) ==
            IF ~Needed("casco") THEN << >>
            ELSE IF has_modelo
            THEN Split(FilterFrame(df_combined, "modelo", intent.entities.modelo))
            ELSE ("casco_sample" :>
                    [cols |-> df_combined.cols,
                     rows |-> [i \in DOMAIN sample |-> df_combined.rows[sample[i]]]])
        Marca(modelo) == IF IsIn("/", modelo) THEN Before(modelo, "/") ELSE FirstToken(modelo)
        Info(key, stats) == IF stats.encontrado THEN (key :> stats) ELSE << >>
        acidentes_info ==
            IF Needed("acidentes") /\ has_modelo
            THEN Info("acidentes_info",
                      GetAccidentStatsByBrand(acidentes, Marca(Chars(intent.entities.modelo))))
            ELSE << >>
        keyword == intent.entities.estado_mencionado
        estado == IF keyword \in {<<"s", "p">>, <<"s", "ã", "o", " ", "p", "a", "u", "l", "o">>} THEN Txt_SaoPaulo
                  ELSE IF keyword \in {Txt_rj, <<"r", "i", "o", " ", "d", "e", " ", "j", "a", "n", "e", "i", "r", "o">>} THEN Txt_RioDeJaneiro
                  ELSE IF keyword \in {<<"m", "g">>, <<"m", "i", "n", "a", "s">>} THEN <<"M", "i", "n", "a", "s", " ", "G", "e", "r", "a", "i", "s">>
                  ELSE StrTitle(keyword)
        seguranca_info ==
            IF Needed("seguranca") /\ "estado_mencionado" \in DOMAIN intent.entities
            THEN Info("seguranca_info", GetTheftStatsByState(seguranca, estado, Ano2019))
            ELSE << >>
        WithView(g) ==
            [T |-> g.T,
             data |-> IF ~intent.needs_data THEN << >>
                      ELSE Casco(CombinedView(g.T)) @@ acidentes_info @@ seguranca_info]
    IN  WithView(IF intent.needs_data /\ Needed("casco") THEN GetCombinedCascoData(T)
                 ELSE [T |-> T, status |-> "ok"])

\* enrich_prompt up to the data it formats: extract_intent, then get_relevant_data
Enrich(user_message) ==
    /\ \A k \in GetNames : loads[k] < MaxLoads
    /\ LET Samples(rows, n) ==
               {s \in [1..n -> rows] : \A a, b \in 1..n : s[a] = s[b] => a = b}
           Done(intent, d) ==
               /\ Commit(d.T)
               /\ ret' = Result("enrich", user_message, "ok",
                                [intent |-> intent, data |-> d.data], d.T)
           Relevant(i, rows) ==
               \E sample \in Samples(rows, MinOf(10, Cardinality(rows))) :
                   Done(i.intent, GetRelevantData(i.T, i.intent, sample))
           Intended(i) ==
               Relevant(i, DOMAIN CombinedView(GetCombinedCascoData(i.T).T).rows)
       IN  Intended(ExtractIntent(T0, user_message))
    /\ UNCHANGED <<variant, configs, avail>>
    /\ UNCHANGED <<estVars, riskVars, conVars>>

\* what the user typed in the chat
Messages ==
    {<<"C", "i", "v", "i", "c">>,
     <<"p", "r", "e", "m", "i", "o", " ", "d", "o", " ", "u", "n", "o">>,
     <<"c", "i", "v", "i", "c", " ", "o", "u", " ", "u", "n", "o">>,
     <<"r", "o", "u", "b", "o">>,
     <<"c", "u", "s", "t", "o", " ", "r", "o", "u", "b", "o">>,
     <<"r", "e", "g", "i", "a", "o", " ", "s", "u", "l">>,
     <<"o", "i">>}

\* the accident table the analyzer of the application holds
AccidentRowCivic ==
    [marca |-> <<"H", "O", "N", "D", "A", "/", "C", "I", "V", "I", "C">>, tipo_envolvido |-> "Condutor", causa_acidente |-> "Chuva",
     tipo_acidente |-> "Colisao", uf |-> "SP", idade |-> 40, sexo |-> "M"]

\* the application right after start: nothing loaded, the two half-year
\* datasets reachable or not
InitApp ==
    /\ variant = "app"
    /\ configs = InitialConfigs("app")
    /\ tables = << >>
    /\ avail \in SUBSET {"casco_sem1", "casco_sem2"}
    /\ loads = [k \in GetNames |-> 0]
    /\ ret = Result("init", "", "ok", NoValue, T0)
    /\ IdleEst
    /\ acidentes = (AccidentRowCivic :> 1)
    /\ seguranca = <<>>
    /\ populacao = <<>>
    /\ riskQuery = NoRiskQuery
    /\ risk = NoRisk
    /\ IdleCallers

NextApp ==
    \/ \E n \in {"casco_sem1", "casco_sem2"} : Get(n)
    \/ LoadAll
    \/ \E a, b \in {"casco_sem1", "casco_sem2"}, tag \in BOOLEAN : Combine(<<a, b>>, tag)
    \/ GetCombined
    \/ \E n \in {"casco_sem1", "casco_sem2"}, column \in {"modelo", "cor"},
          value \in {"CIVIC", "GOL"} : Query(n, column, value)
    \/ \E modelo \in {"CIVIC", "GOL"}, sexo \in {"M", "F"},
          regiao_desc \in {Txt_SaoPaulo, Txt_RJ} :
            EstimateApp(modelo, 2023, sexo, regiao_desc, "18-25")
    \/ \E user_message \in Messages : Enrich(user_message)
    \/ \E k \in {"casco_sem1", "casco_sem2"} : SourceChange(k)

SpecApp == InitApp /\ [][NextApp]_vars

(***************************************************************************)
(* Properties of the DataManager                                           *)
(***************************************************************************)
\* C3: once get(name) has succeeded, the cache entry of name is never removed
\* or replaced by any operation, and a later get(name) returns that same
\* instance without fetching anything.
C3_CacheWriteOnce ==
    [][/\ \A k \in DOMAIN tables :
            k \in DOMAIN tables' /\ tables'[k] = tables[k] /\ loads'[k] = loads[k]
       /\ (ret'.op = "get" /\ ret'.arg \in DOMAIN tables)
            => (ret'.status = "ok" /\ ret'.value = tables[ret'.arg]
                /\ ret'.fetched = <<>>)]_vars

\* a cache hit on a table that was registered again with another locator,
\* after the combined view was built
C3_Witness ==
    /\ ret.op = "get" /\ ret.arg = "casco_sem1" /\ ret.status = "ok"
    /\ ret.fetched = <<>>
    /\ ConfigOf(configs, "casco_sem1").file_path = "casco_tratadoB"
    /\ CacheKey \in DOMAIN tables

\* C4: get(name) for a name that has no declaration in the registry fails
\* with NotRegistered.
C4_UnregisteredFails ==
    (ret.op = "get" /\ ret.arg \notin ConfigNames(configs))
        => ret.status = "NotRegistered"

\* C5: get(name) for a registered, not yet cached table whose source cannot
\* be fetched fails with SourceUnavailable and leaves the cache as it was,
\* with no entry for name.
C5_FailedLoadLeavesNoEntry ==
    [][(/\ ret'.op = "get"
        /\ ret'.arg \in ConfigNames(configs)
        /\ ret'.arg \notin DOMAIN tables
        /\ ~Fetchable(ret'.arg))
       => (/\ ret'.status = "SourceUnavailable"
           /\ tables' = tables
           /\ ret'.arg \notin DOMAIN tables')]_vars

\* a get that tried the source of its table and failed
C5_Witness ==
    /\ ret.op = "get" /\ ret.status = "SourceUnavailable"
    /\ ret.fetched = <<ret.arg>>

\* C6: whenever load_all() returns normally, every registered table is in
\* the cache.
C6_LoadAllMaterializesAll ==
    (ret.op = "load_all" /\ ret.status = "ok")
        => ConfigNames(configs) \subseteq DOMAIN tables

Loadable(n) ==
    n \in DOMAIN tables \/ (n \in ConfigNames(configs) /\ Fetchable(n))

\* df holds exactly the rows of src, in order, each with the period and the
\* half index added
IsTaggedCopy(df, src, periodo, semestre) ==
    /\ Len(df.rows) = Len(src.rows)
    /\ \A i \in DOMAIN src.rows :
         /\ df.rows[i]["periodo"] = Cell(periodo)
         /\ df.rows[i]["semestre"] = Cell(semestre)
         /\ \A c \in src.cols : df.rows[i][c] = src.rows[i][c]

\* C8: get_combined_policy_data() returns the first half-year alone, tagged
\* with its period and half index 1, when the second half-year cannot be
\* loaded and the first can; it returns the empty frame only when the first
\* half-year cannot be loaded.
C8_DegradeToFirstHalf ==
    [][ret'.op = "get_combined" =>
        /\ (Loadable("casco_sem1") /\ ~Loadable("casco_sem2"))
             => /\ ret'.status = "ok"
                /\ "casco_sem1" \in DOMAIN tables'
                /\ IsTaggedCopy(ret'.value.df, tables'["casco_sem1"].df, Periodo1, 1)
        /\ ret'.value.df = EmptyFrame => ~Loadable("casco_sem1")]_vars

\* the second half-year was tried and failed, the first half came back alone
C8_Witness ==
    /\ ret.op = "get_combined"
    /\ ret.fetched = <<"casco_sem1", "casco_sem2">>
    /\ "casco_sem2" \notin DOMAIN tables
    /\ Len(ret.value.df.rows) = Len(tables["casco_sem1"].df.rows)
    /\ Len(ret.value.df.rows) > 0

\* C9: whenever a Combined Policy View is cached, its row count is the row
\* count of the first half-year table plus that of the second.
C9_CombinedRowCount ==
    (CacheKey \in DOMAIN tables /\ "casco_sem1" \in DOMAIN tables
        /\ "casco_sem2" \in DOMAIN tables)
        => Len(tables[CacheKey].df.rows)
             = Len(tables["casco_sem1"].df.rows) + Len(tables["casco_sem2"].df.rows)

(***************************************************************************)
(* Properties of the calculator                                            *)
(***************************************************************************)
ModelRows(df, modelo) == {i \in 1..Len(df) : df[i].modelo = modelo}

Min(S) == CHOOSE x \in S : \A y \in S : x <= y

\* the first row of the narrowest non-empty scope among S /\ P and S
FirstPreferring(S, P) == IF S \cap P = {} THEN Min(S) ELSE Min(S \cap P)

\* C1: the estimate is the ModelNotFound error result exactly when no row of
\* the view has the requested model, whatever the year, sex, region and
\* age-band are.
C1_ErrorIffModelAbsent ==
    est.called => (est.erro <=> ModelRows(view, query.modelo) = {})

\* a successful estimate for a present model asked with an age-band and a
\* region that no row of the view has
C1_Witness ==
    /\ est.called /\ ~est.erro
    /\ query.faixa_desc \notin Faixas /\ query.regiao_desc \notin Regioes
    /\ query.sexo = "X"

\* C2: if no row of the model has the requested age-band, the selected
\* record is the one selected by model then region; if no row of the model
\* has the requested region, it is the one selected by model then age-band.
C2_FallbackMonotonicity ==
    (est.called /\ ~est.erro) =>
        LET M == ModelRows(view, query.modelo)
            F == {i \in 1..Len(view) : view[i].faixa_desc = query.faixa_desc}
            R == {i \in 1..Len(view) : view[i].regiao_desc = query.regiao_desc}
        IN  /\ (M \cap F = {}) => est.registro_pos = FirstPreferring(M, R)
            /\ (M \cap R = {}) => est.registro_pos = FirstPreferring(M, F)

\* the region is absent from the model's rows and the age-band picks a row
\* that is not the model's first row
C2_Witness ==
    /\ est.called /\ ~est.erro
    /\ \A i \in ModelRows(view, query.modelo) : view[i].regiao_desc # query.regiao_desc
    /\ est.registro_pos # Min(ModelRows(view, query.modelo))

\* C21: for a model that has rows, the record the estimate uses is the first
\* row, in the order of the view, of the narrowest non-empty scope: model,
\* age-band and region; else model and age-band; else model and region; else
\* the model alone. The age-band is honoured in preference to the region.
C21_NarrowestScopeFirstRow ==
    (est.called /\ ~est.erro) =>
        LET M == ModelRows(view, query.modelo)
            MF == {i \in M : view[i].faixa_desc = query.faixa_desc}
            MR == {i \in M : view[i].regiao_desc = query.regiao_desc}
            scope == IF MF \cap MR # {} THEN MF \cap MR
                     ELSE IF MF # {} THEN MF
                     ELSE IF MR # {} THEN MR
                     ELSE M
        IN  /\ est.registro_pos = Min(scope)
            /\ est.registro = view[Min(scope)]

\* no row has model, age-band and region together, an earlier row of the
\* model has the region and a later one the age-band: the later one is used
C21_Witness ==
    /\ est.called /\ ~est.erro
    /\ \E i, j \in ModelRows(view, query.modelo) :
            /\ i < j
            /\ view[i].regiao_desc = query.regiao_desc
            /\ view[i].faixa_desc # query.faixa_desc
            /\ view[j].faixa_desc = query.faixa_desc
            /\ view[j].regiao_desc # query.regiao_desc
            /\ est.registro_pos = j

\* the columns of the view
ViewColumns == UNION {DOMAIN view[i] : i \in DOMAIN view}

FreqColumns == ViewColumns \cap {"freq_sin1", "freq_sin2"}

IndenColumns == ViewColumns \cap {"indeniz1", "indeniz2"}

\* the record used has a number in every one of the columns
Filled(cols) == cols \subseteq DOMAIN est.registro

\* the mean over cols of the record used is a number above zero
MeanPositive(cols) == cols # {} /\ Filled(cols) /\ SumOver(cols, est.registro) > 0

\* the factors in hundredths
AgeFactor(ano) ==
    LET f == (2025 - ano) + 90 IN IF f < 70 THEN 70 ELSE IF f > 120 THEN 120 ELSE f

SexFactor(sexo) == IF sexo = "M" THEN 110 ELSE IF sexo = "F" THEN 97 ELSE 100

RegionFactor(regiao_desc) ==
    IF StrContains(regiao_desc, Txt_SP) THEN 115
    ELSE IF StrContains(regiao_desc, Txt_RJ) THEN 122
    ELSE 100

\* the base premium as the fraction num / den: frequency x severity when
\* both means are above zero, the historical premium of the record otherwise
BaseNum ==
    IF MeanPositive(FreqColumns) /\ MeanPositive(IndenColumns)
    THEN SumOver(FreqColumns, est.registro) * SumOver(IndenColumns, est.registro)
    ELSE est.registro.premio1

BaseDen ==
    IF MeanPositive(FreqColumns) /\ MeanPositive(IndenColumns)
    THEN Cardinality(FreqColumns) * Cardinality(IndenColumns)
    ELSE 1

\* C22: the frequency is the mean over all claim-frequency columns and the
\* severity the mean over all indemnity columns of the record used (0 when
\* there is no such column); the historical premium is the premio1 of the
\* record; the premium is built on frequency x severity exactly when both are
\* above zero and on the historical premium otherwise.
C22_MeansAndBasePremium ==
    (est.called /\ ~est.erro) =>
        /\ est.registro = view[est.registro_pos]
        /\ est.premio_historico = Cell(100 * est.registro.premio1)
        /\ Filled(FreqColumns) =>
                est.frequencia =
                    IF FreqColumns = {} THEN Cell(0)
                    ELSE Cell(RoundDiv(1000000 * SumOver(FreqColumns, est.registro),
                                       Cardinality(FreqColumns)))
        /\ Filled(IndenColumns) =>
                est.severidade =
                    IF IndenColumns = {} THEN Cell(0)
                    ELSE Cell(RoundDiv(100 * SumOver(IndenColumns, est.registro),
                                       Cardinality(IndenColumns)))
        /\ est.premio_estimado =
                Cell(RoundDiv(BaseNum * AgeFactor(query.ano) * SexFactor(query.sexo)
                                      * RegionFactor(query.regiao_desc),
                              BaseDen * 10000))

\* two frequency columns and two indemnity columns, all above zero in the
\* record used, and the premium is not the one built on the historical premium
C22_Witness ==
    /\ est.called /\ ~est.erro
    /\ Cardinality(FreqColumns) = 2 /\ Cardinality(IndenColumns) = 2
    /\ MeanPositive(FreqColumns) /\ MeanPositive(IndenColumns)
    /\ est.frequencia = Cell(3000000)
    /\ est.severidade = Cell(10000)
    /\ est.premio_estimado #
            Cell(RoundDiv(est.registro.premio1 * AgeFactor(query.ano)
                              * SexFactor(query.sexo) * RegionFactor(query.regiao_desc),
                          10000))

\* C23: the premium is base x age factor x sex factor x region factor: the
\* age factor is (2025 - year) x 0.01 + 0.9 clamped into [0.7, 1.2], the sex
\* factor 1.10 for "M", 0.97 for "F" and 1.0 otherwise, the region factor 1.15
\* with "SP" in the descriptor, 1.22 with "RJ" and no "SP", 1.0 otherwise;
\* one value of each factor is applied.
C23_PremiumIsProductOfFactors ==
    (est.called /\ ~est.erro) =>
        \E idade \in 70..120, sexo \in {110, 97, 100}, regiao \in {115, 122, 100} :
            /\ \/ idade = (2025 - query.ano) + 90
               \/ (idade = 70 /\ (2025 - query.ano) + 90 < 70)
               \/ (idade = 120 /\ (2025 - query.ano) + 90 > 120)
            /\ sexo = 110 <=> query.sexo = "M"
            /\ sexo = 97 <=> query.sexo = "F"
            /\ regiao = 115 <=> StrContains(query.regiao_desc, Txt_SP)
            /\ regiao = 122 <=> (StrContains(query.regiao_desc, Txt_RJ)
                                    /\ ~StrContains(query.regiao_desc, Txt_SP))
            /\ est.premio_estimado =
                    Cell(RoundDiv(BaseNum * idade * sexo * regiao, BaseDen * 10000))

\* a year below the clamp, sex "F" and a descriptor that holds both codes
C23_Witness ==
    /\ est.called /\ ~est.erro
    /\ query.ano = 1990 /\ query.sexo = "F"
    /\ StrContains(query.regiao_desc, Txt_SP) /\ StrContains(query.regiao_desc, Txt_RJ)
    /\ est.premio_estimado = Cell(RoundDiv(BaseNum * 120 * 97 * 115, BaseDen * 10000))

(***************************************************************************)
(* Properties of the combiner                                              *)
(***************************************************************************)
TagColumns == {"periodo", "semestre"}

\* rows off+1 .. off+|src| of df are the rows of src in order; the columns
\* src lacks are null there (the period columns apart)
HoldsRowsOf(df, src, off) ==
    \A i \in DOMAIN src.rows :
        /\ \A c \in src.cols : df.rows[off + i][c] = src.rows[i][c]
        /\ \A c \in df.cols \ (src.cols \cup TagColumns) : df.rows[off + i][c] = Null

\* C7: combine([A, B], tag) has |A| + |B| rows, the rows of A in order and
\* then the rows of B in order; every column of A or B is kept and is null in
\* the rows of the input that lacks it.
C7_CombineIsRowUnion ==
    (ret.op = "combine" /\ ret.status = "ok") =>
        LET A == tables[ret.arg[1]].df
            B == tables[ret.arg[2]].df
            R == ret.value.df
        IN  /\ Len(R.rows) = Len(A.rows) + Len(B.rows)
            /\ A.cols \cup B.cols \subseteq R.cols
            /\ \A i \in DOMAIN R.rows : DOMAIN R.rows[i] = R.cols
            /\ HoldsRowsOf(R, A, 0)
            /\ HoldsRowsOf(R, B, Len(A.rows))

\* two non-empty tables with different schemas were combined
C7_Witness ==
    /\ ret.op = "combine" /\ ret.status = "ok"
    /\ ret.arg = <<"casco_sem1", "casco0">>
    /\ tables["casco_sem1"].df.cols = {"modelo"}
    /\ tables["casco0"].df.cols = {"premio1"}
    /\ Len(tables["casco_sem1"].df.rows) = MaxFrameRows
    /\ Len(tables["casco0"].df.rows) > 0
    /\ ret.value.df.rows[1]["premio1"] = Null

\* the period and the half-year index combine_tables is to give the rows of
\* the table called n at the 1-based position p
StampOf(n, p) ==
    IF n = "casco_sem1" THEN [periodo |-> Periodo1, semestre |-> 1]
    ELSE IF n = "casco_sem2" THEN [periodo |-> Periodo2, semestre |-> 2]
    ELSE [periodo |-> n, semestre |-> p]

\* df, the combination of the cached tables a and b of T, carries the stamps
\* of its two parts, or no period column at all when tag is off
Stamped(df, T, a, b, tag) ==
    LET A == T[a].df
        B == T[b].df
    IN  IF ~tag THEN df.cols = A.cols \cup B.cols
        ELSE /\ df.cols = A.cols \cup B.cols \cup TagColumns
             /\ \A i \in DOMAIN df.rows :
                    LET stamp == IF i <= Len(A.rows) THEN StampOf(a, 1) ELSE StampOf(b, 2)
                    IN  /\ df.rows[i].periodo = Cell(stamp.periodo)
                        /\ df.rows[i].semestre = Cell(stamp.semestre)

\* C24: combine_tables(names, add_period_column = True) stamps every row by
\* the name of its table: semestre 1 and the first-half period for a name with
\* the first-half marker, semestre 2 and the second-half period for the
\* second-half marker, else the name itself as period and the 0-based position
\* plus 1; with add_period_column = False no period column is added.
C24_PeriodStamps ==
    [][(ret'.op = "combine" /\ ret'.status = "ok") =>
          \A tag \in BOOLEAN :
              Combine(ret'.arg, tag)
                  => Stamped(ret'.value.df, tables', ret'.arg[1], ret'.arg[2], tag)]_vars

\* a second-half table and a table without marker were combined with stamps:
\* the first row is of half-year 2, the last row carries the name of its
\* table and the index 2
C24_Witness ==
    /\ ret.op = "combine" /\ ret.status = "ok"
    /\ ret.arg = <<"casco_sem2", "casco0">>
    /\ "semestre" \in ret.value.df.cols
    /\ ret.value.df.rows[1].periodo = Cell(Periodo2)
    /\ LET last == ret.value.df.rows[Len(ret.value.df.rows)]
       IN  last.periodo = Cell("casco0") /\ last.semestre = Cell(2)

(***************************************************************************)
(* Properties of the risk profile                                          *)
(***************************************************************************)
\* C10: whatever the model, the state code and the accident, crime and
\* demographic tables are, the score of a returned risk profile is at least
\* 50 and at most 100.
C10_ScoreBounds ==
    (risk.called /\ ~risk.raised) => (50 <= risk.risk_score /\ risk.risk_score <= 100)

\* every adjustment is at its largest: more than 1000 accidents of the brand,
\* more than 10000 thefts in the state, a youth share above 5 percent
C10_Witness ==
    /\ risk.called /\ ~risk.raised
    /\ risk.dados_acidentes.encontrado /\ risk.dados_acidentes.total_acidentes > 1000
    /\ risk.dados_seguranca.encontrado
    /\ risk.dados_seguranca.total_roubos + risk.dados_seguranca.total_furtos > 10000
    /\ risk.dados_demografia.encontrado
    /\ FractionAbove(risk.dados_demografia.proporcao_jovens, 5)

\* C11: get_integrated_risk_profile returns a profile whenever a brand can be
\* read off the model string, whatever the three sub-queries find: the
\* profile has a score, a label and a recommendation, every sub-query result
\* is in it with its encontrado flag, and a sub-query that found nothing adds
\* nothing to the base score of 50.
C11_NotFoundIsNotFatal ==
    risk.called =>
        /\ risk.raised =>
             (~IsIn("/", riskQuery.modelo) /\ FirstToken(riskQuery.modelo) = <<>>)
        /\ ~risk.raised =>
             /\ {"risk_score", "nivel_risco", "recomendacao"} \subseteq DOMAIN risk
             /\ \A part \in {"dados_acidentes", "dados_seguranca", "dados_demografia"} :
                   part \in DOMAIN risk /\ "encontrado" \in DOMAIN risk[part]
             /\ risk.risk_score >= 50
             /\ risk.risk_score <= 50 + (IF risk.dados_acidentes.encontrado THEN 15 ELSE 0)
                                      + (IF risk.dados_seguranca.encontrado THEN 20 ELSE 0)
                                      + (IF risk.dados_demografia.encontrado THEN 5 ELSE 0)

\* a profile in which none of the three sub-queries found anything
C11_Witness ==
    /\ risk.called /\ ~risk.raised
    /\ ~risk.dados_acidentes.encontrado
    /\ ~risk.dados_seguranca.encontrado
    /\ ~risk.dados_demografia.encontrado
    /\ risk.risk_score = 50

(***************************************************************************)
(* Properties of the sub-queries, read off the profile that carries their  *)
(* results                                                                 *)
(***************************************************************************)
\* the brand get_integrated_risk_profile asks get_accident_stats_by_brand for
QueriedBrand ==
    IF IsIn("/", riskQuery.modelo) THEN Before(riskQuery.modelo, "/")
    ELSE FirstToken(riskQuery.modelo)

BrandRows ==
    {r \in RowKinds(acidentes) : StrContains(StrUpper(r.marca), StrUpper(QueriedBrand))}

DriverRows == {r \in BrandRows : r.tipo_envolvido = "Condutor"}

CountOf(rows) == SumOver(rows, acidentes)

\* counts lists the (at most five) most frequent values of col over rows,
\* each with the number of rows that have it
IsTop5Of(counts, rows, col) ==
    LET values == {r[col] : r \in rows}
        cnt == [v \in values |-> CountOf({r \in rows : r[col] = v})]
    IN  /\ DOMAIN counts \subseteq values
        /\ Cardinality(DOMAIN counts) = IF Cardinality(values) < 5 THEN Cardinality(values) ELSE 5
        /\ \A v \in DOMAIN counts : counts[v] = cnt[v]
        /\ \A v \in DOMAIN counts, w \in values \ DOMAIN counts : cnt[v] >= cnt[w]

\* the driver profile of a result: sex distribution and mean age (in tenths)
\* of the driver rows
IsDriverProfile(acc) ==
    LET sexos == {r.sexo : r \in DriverRows}
        idades == SumOver(DriverRows, [r \in DriverRows |-> r.idade * acidentes[r]])
        n == CountOf(DriverRows)
    IN  /\ DOMAIN acc.distribuicao_sexo = sexos
        /\ \A v \in sexos :
              acc.distribuicao_sexo[v] = CountOf({r \in DriverRows : r.sexo = v})
        /\ (n = 0) <=> (acc.idade_media_condutor = Null)
        /\ n > 0 =>
              LET d == 10 * idades - acc.idade_media_condutor[1] * n
              IN  2 * d <= n /\ 2 * d >= 0 - n

\* C15 as stated: for a brand that matches no row of the accident table the
\* result has no populated field but encontrado = false.
C15_NotFoundOnlyFlag ==
    (risk.called /\ ~risk.raised /\ BrandRows = {})
        => (DOMAIN risk.dados_acidentes = {"encontrado"}
            /\ ~risk.dados_acidentes.encontrado)

\* C15 amended: for a brand that matches no row of the accident table the
\* result is encontrado = false together with marca, the brand that was asked
\* for, and nothing else.
C15_NotFoundFlagAndBrand ==
    (risk.called /\ ~risk.raised /\ BrandRows = {})
        => (/\ DOMAIN risk.dados_acidentes = {"encontrado", "marca"}
            /\ ~risk.dados_acidentes.encontrado
            /\ risk.dados_acidentes.marca = QueriedBrand)

\* a brand that is absent from a table holding rows of other brands
C15_Witness ==
    /\ risk.called /\ ~risk.raised
    /\ BrandRows = {} /\ RowKinds(acidentes) # {}
    /\ ~risk.dados_acidentes.encontrado

\* C16 as stated: the total, the top-5 causes, accident types and states, the
\* mean age and the sex distribution are all taken over the driver rows of
\* the brand.
C16_AllStatsOverDrivers ==
    (risk.called /\ ~risk.raised /\ BrandRows # {}) =>
        LET acc == risk.dados_acidentes IN
        /\ acc.encontrado
        /\ acc.total_acidentes = CountOf(DriverRows)
        /\ IsTop5Of(acc.causas_principais, DriverRows, "causa_acidente")
        /\ IsTop5Of(acc.tipos_acidentes, DriverRows, "tipo_acidente")
        /\ IsTop5Of(acc.estados_maior_incidencia, DriverRows, "uf")
        /\ IsDriverProfile(acc)

\* C16 amended: the total and the top-5 causes, accident types and states are
\* taken over all rows of the brand, whatever the role of the involved party;
\* only the mean age and the sex distribution are taken over its driver rows.
C16_DriverProfileOverDrivers ==
    (risk.called /\ ~risk.raised /\ BrandRows # {}) =>
        LET acc == risk.dados_acidentes IN
        /\ acc.encontrado
        /\ acc.total_acidentes = CountOf(BrandRows)
        /\ IsTop5Of(acc.causas_principais, BrandRows, "causa_acidente")
        /\ IsTop5Of(acc.tipos_acidentes, BrandRows, "tipo_acidente")
        /\ IsTop5Of(acc.estados_maior_incidencia, BrandRows, "uf")
        /\ IsDriverProfile(acc)

\* the brand has driver rows and a passenger row, and the table has a row of
\* another brand
C16_Witness ==
    /\ risk.called /\ ~risk.raised
    /\ risk.dados_acidentes.encontrado
    /\ CountOf(DriverRows) > 1
    /\ CountOf(BrandRows) > CountOf(DriverRows)
    /\ RowKinds(acidentes) # BrandRows

\* the rows of the crime table that count for the state of the profile in
\* 2019 and whose crime type contains word
TheftRows(word) ==
    {i \in DOMAIN seguranca :
        /\ StrTitle(StrStrip(seguranca[i].estado))
             = StrTitle(StrStrip(MapaEstados(riskQuery.uf)))
        /\ seguranca[i].ano = Ano2019
        /\ StrContains(seguranca[i].tipo_crime, word)}

StateHasRows ==
    \E i \in DOMAIN seguranca :
        StrTitle(StrStrip(seguranca[i].estado)) = StrTitle(StrStrip(MapaEstados(riskQuery.uf)))

\* C17: for a state that has rows in the crime table, total_roubos is the sum
\* of quantidade over the rows of that state (names trimmed and title-cased)
\* of the year asked for whose tipo_crime contains "Roubo", total_furtos the
\* same over the rows whose tipo_crime contains "Furto".
C17_TheftTotals ==
    (risk.called /\ ~risk.raised /\ StateHasRows) =>
        LET q == [i \in DOMAIN seguranca |-> ParseInt(seguranca[i].quantidade)] IN
        /\ risk.dados_seguranca.encontrado
        /\ risk.dados_seguranca.total_roubos = SumOver(TheftRows(Txt_Roubo), q)
        /\ risk.dados_seguranca.total_furtos = SumOver(TheftRows(Txt_Furto), q)

\* the state has a padded lower-case row and a plain row in 2019, a row in
\* another year, and the table has a row of another state
C17_Witness ==
    /\ risk.called /\ ~risk.raised
    /\ Len(seguranca) = 4
    /\ riskQuery.uf = Txt_rj
    /\ risk.dados_seguranca.total_roubos = 5000
    /\ risk.dados_seguranca.total_furtos = 1

(***************************************************************************)
(* Properties of the estimate's result                                     *)
(***************************************************************************)
\* C12: the record a successful estimate returns for display is exactly the
\* single row the cascade selected, the row its historical premium,
\* frequency and severity were computed from.
C12_ReturnsMatchedRecord ==
    (est.called /\ ~est.erro) => est.registro_utilizado = <<view[est.registro_pos]>>

\* the estimate of the scenario: CIVIC, 2023, M, age-band 25-30 and a region
\* descriptor containing "São Paulo"
IsScenario ==
    /\ est.called /\ ~est.erro
    /\ query.modelo = "CIVIC" /\ query.ano = 2023 /\ query.sexo = "M"
    /\ query.faixa_desc = "25-30"
    /\ StrContains(query.regiao_desc, Txt_SaoPaulo)

\* the premium in cents of a base premium under three factors in hundredths
Adjusted(base, idade, sexo, regiao) ==
    Cell(RoundDiv(base * idade * sexo * regiao, 10000))

\* C19 as stated: in the scenario the base premium is multiplied by the age
\* factor 0.92, the sex factor 1.10 and the region factor 1.15.
C19_ScenarioFactors ==
    IsScenario => est.premio_estimado = Adjusted(view[est.registro_pos].premio1, 92, 110, 115)

\* C19 amended: in the scenario the base premium is multiplied by the age
\* factor 0.92 and the sex factor 1.10; the region factor 1.15 is applied
\* only when the descriptor also contains the code "SP", and a descriptor
\* with neither "SP" nor "RJ" in it, as "São Paulo" alone, gets no region
\* factor.
C19_ScenarioFactorsByCode ==
    IsScenario =>
        est.premio_estimado =
            Adjusted(view[est.registro_pos].premio1, 92, 110,
                     IF StrContains(query.regiao_desc, Txt_SP) THEN 115
                     ELSE IF StrContains(query.regiao_desc, Txt_RJ) THEN 122 ELSE 100)

\* the scenario asked with the bare descriptor "São Paulo"
C19_Witness ==
    /\ IsScenario
    /\ query.regiao_desc = Txt_SaoPaulo
    /\ est.premio_estimado = Cell(10120)

(***************************************************************************)
(* Properties of concurrent first access                                   *)
(***************************************************************************)
\* C14: when several threads call get(name) for a registered table that is
\* not cached yet, the source is loaded once, the cache entry of name is
\* written once, and all of them receive the same cached instance.
C14_SingleLoadUnderConcurrency ==
    \A n \in RegNames :
        LET asked == {c \in Callers : threads[c].name = n} IN
        /\ Cardinality({c \in asked : threads[c].fetched}) <= 1
        /\ loads[n] <= 1
        /\ \A c, d \in asked :
              (threads[c].status = "ok" /\ threads[d].status = "ok")
                  => threads[c].got = threads[d].got

(***************************************************************************)
(* Properties of the application over the DataManager                      *)
(***************************************************************************)
\* a fetch of this operation failed: the name was asked of its source and is
\* not in the cache afterwards
FailedLoads == {ret.fetched[i] : i \in DOMAIN ret.fetched} \ DOMAIN tables

\* C13: an operation in which a table load failed does not return normally
\* with nothing said about it: get, load_all, combine, the filter queries and
\* estimate hand the failure to their caller.
C13_FailedLoadIsReported ==
    (ret.op \in {"get", "load_all", "combine", "query", "estimate"} /\ FailedLoads # {})
        => ret.status # "ok"

\* C18: when the text names a known model, the data returned for its intent
\* hold the rows of the combined view of that model, those rows split into
\* half-year 1 and half-year 2 (together exactly the slice), and the accident
\* statistics of the brand of the model.
C18_SliceSplitAndBrandStats ==
    (ret.op = "enrich" /\ "modelo" \in DOMAIN ret.value.intent.entities) =>
        LET modelo == ret.value.intent.entities.modelo
            slice == FilterFrame(CombinedView(T0), "modelo", modelo)
            data == ret.value.data
        IN  /\ {"casco_filtered", "casco_sem1", "casco_sem2"} \subseteq DOMAIN data
            /\ data.casco_filtered = slice
            /\ data.casco_sem1 = FilterFrame(slice, "semestre", 1)
            /\ data.casco_sem2 = FilterFrame(slice, "semestre", 2)
            /\ Len(data.casco_sem1.rows) + Len(data.casco_sem2.rows) = Len(slice.rows)
            /\ "acidentes_info" \in DOMAIN data
            /\ data.acidentes_info = GetAccidentStatsByBrand(acidentes, Chars(modelo))

\* C20: no step changes the rows or the columns of a table that is in the
\* cache, and a table that enters the cache holds exactly the dataset it was
\* loaded from: combine, get_combined_casco_data, the filter queries, the
\* estimate and the enrichment tag and narrow copies only.
C20_CachedTablesNeverChange ==
    [][/\ \A k \in DOMAIN tables :
            /\ k \in DOMAIN tables'
            /\ tables'[k].df.cols = tables[k].df.cols
            /\ tables'[k].df.rows = tables[k].df.rows
       /\ \A n \in (DOMAIN tables' \ DOMAIN tables) \cap RegNames :
            tables'[n].df = Dataset(SourceKey(n))]_vars

\* an estimate and an enrichment went through with both tables and the
\* combined view in the cache, and the cached tables carry no period column
C20_Witness ==
    /\ ret.op \in {"estimate", "enrich"}
    /\ ret.status = "ok"
    /\ {"casco_sem1", "casco_sem2", CacheKey} \subseteq DOMAIN tables
    /\ ret.op = "estimate" => (~ret.value.erro /\ ret.value.contexto_adicional # Null)
    /\ ret.op = "enrich" => "casco_filtered" \in DOMAIN ret.value.data
    /\ \A n \in {"casco_sem1", "casco_sem2"} :
            /\ tables[n].df = Dataset(n)
            /\ "semestre" \notin tables[n].df.cols

\* C25: once the combined view is memoized and not empty, every step keeps
\* that instance; a later get_combined_casco_data returns it and fetches
\* nothing; the enricher and the calculator read it: they fetch nothing
\* either, the slice of the enricher and the row count of the model in the
\* estimate are those of the memoized view.
C25_OneMemoizedView ==
    [][(CacheKey \in DOMAIN tables /\ tables[CacheKey].df.rows # <<>>) =>
          /\ CacheKey \in DOMAIN tables' /\ tables'[CacheKey] = tables[CacheKey]
          /\ ret'.op = "get_combined" =>
                (ret'.value = tables[CacheKey] /\ ret'.fetched = <<>>)
          /\ ret'.op = "enrich" =>
                /\ ret'.fetched = <<>>
                /\ "casco_filtered" \in DOMAIN ret'.value.data =>
                      ret'.value.data.casco_filtered =
                          FilterFrame(tables[CacheKey].df, "modelo",
                                      ret'.value.intent.entities.modelo)
          /\ ret'.op = "estimate" =>
                /\ ret'.fetched = <<>>
                /\ ret'.status = "ok"
                /\ ~ret'.value.erro =>
                      ret'.value.stats_comparativas.total_registros =
                          Len(FilterFrame(tables[CacheKey].df, "modelo", ret'.arg).rows)]_vars

\* the adjustment for a count x: b3 above t3, b2 above t2, b1 above t1, else 0
Tiered(x, t3, b3, t2, b2, t1, b1) ==
    IF x > t3 THEN b3 ELSE IF x > t2 THEN b2 ELSE IF x > t1 THEN b1 ELSE 0

ScoreA ==
    IF ~risk.dados_acidentes.encontrado THEN 0
    ELSE Tiered(risk.dados_acidentes.total_acidentes, 1000, 15, 500, 10, 100, 5)

ScoreT ==
    IF ~risk.dados_seguranca.encontrado THEN 0
    ELSE Tiered(risk.dados_seguranca.total_roubos + risk.dados_seguranca.total_furtos,
                10000, 20, 5000, 15, 1000, 10)

\* the youth share is above 5 percent
ScoreD ==
    IF /\ risk.dados_demografia.encontrado
       /\ risk.dados_demografia.populacao_total > 0
       /\ 100 * risk.dados_demografia.populacao_jovem_15_17
              > 5 * risk.dados_demografia.populacao_total
    THEN 5 ELSE 0

\* C26: the score is min(100, 50 + A + T + D): A is 15, 10, 5 or 0 for more
\* than 1000, 500, 100 accidents of the brand or fewer (0 when the brand is
\* not found), T is 20, 15, 10 or 0 for more than 10000, 5000, 1000 thefts
\* and robberies of 2019 or fewer (0 when the state is not found), D is 5
\* exactly when the youth share is above 5 percent; a population of 1,000,000
\* with 50,000 young people has a share of exactly 5 and earns nothing.
C26_ScoreFormula ==
    (risk.called /\ ~risk.raised) =>
        /\ risk.risk_score = MinOf(100, 50 + ScoreA + ScoreT + ScoreD)
        /\ (/\ risk.dados_demografia.encontrado
            /\ risk.dados_demografia.populacao_total = 1000000
            /\ risk.dados_demografia.populacao_jovem_15_17 = 50000) =>
                /\ risk.dados_demografia.proporcao_jovens.num
                       = 5 * risk.dados_demografia.proporcao_jovens.den
                /\ risk.risk_score = 50 + ScoreA + ScoreT

\* 501 accidents of the brand, 5001 thefts in the state and a youth share of
\* exactly 5 percent
C26_Witness ==
    /\ risk.called /\ ~risk.raised
    /\ risk.dados_acidentes.encontrado /\ risk.dados_acidentes.total_acidentes = 501
    /\ risk.dados_seguranca.encontrado
    /\ risk.dados_seguranca.total_roubos + risk.dados_seguranca.total_furtos = 5001
    /\ risk.dados_demografia.encontrado
    /\ risk.dados_demografia.populacao_total = 1000000
    /\ risk.dados_demografia.populacao_jovem_15_17 = 50000
    /\ risk.risk_score = 75

\* C27: the label is high exactly for a score above 70, medium exactly for a
\* score above 40 and at most 70, low exactly for a score of at most 40, and
\* the recommendation is the one of the tier of the label; this holds of every
\* profile returned and of the two functions on every score from 0 to 100.
C27_LabelTiers ==
    (risk.called /\ ~risk.raised) =>
        /\ risk.nivel_risco = "Alto" <=> risk.risk_score > 70
        /\ risk.nivel_risco = "Medio" <=> (40 < risk.risk_score /\ risk.risk_score <= 70)
        /\ risk.nivel_risco = "Baixo" <=> risk.risk_score <= 40
        /\ risk.recomendacao = "Cobertura completa" <=> risk.nivel_risco = "Alto"
        /\ risk.recomendacao = "Cobertura intermediaria" <=> risk.nivel_risco = "Medio"
        /\ risk.recomendacao = "Cobertura basica" <=> risk.nivel_risco = "Baixo"
        /\ risk.nivel_risco = NivelRisco(risk.risk_score)
        /\ \A score \in 0..100 :
              /\ NivelRisco(score) = "Alto" <=> score > 70
              /\ NivelRisco(score) = "Medio" <=> (40 < score /\ score <= 70)
              /\ NivelRisco(score) = "Baixo" <=> score <= 40
              /\ GenerateRecommendation(score) = "Cobertura completa"
                    <=> NivelRisco(score) = "Alto"
              /\ GenerateRecommendation(score) = "Cobertura intermediaria"
                    <=> NivelRisco(score) = "Medio"
              /\ GenerateRecommendation(score) = "Cobertura basica"
                    <=> NivelRisco(score) = "Baixo"

\* a score of exactly 70 with the medium label and its recommendation
C27_Witness ==
    /\ risk.called /\ ~risk.raised
    /\ risk.risk_score = 70
    /\ risk.nivel_risco = "Medio"
    /\ risk.recomendacao = "Cobertura intermediaria"

\* C30: the score is one of 50, 55, ..., 90, it is the plain sum of the base
\* and the three adjustments (the cap at 100 changes nothing), and neither the
\* low label nor the basic-coverage recommendation is ever produced.
C30_ScoreRange ==
    (risk.called /\ ~risk.raised) =>
        /\ risk.risk_score \in {50 + 5 * k : k \in 0..8}
        /\ risk.risk_score = 50 + AccidentBonus(risk.dados_acidentes)
                                 + TheftBonus(risk.dados_seguranca)
                                 + YouthBonus(risk.dados_demografia)
        /\ risk.nivel_risco # "Baixo"
        /\ risk.recomendacao # "Cobertura basica"

\* the largest score
C30_Witness ==
    /\ risk.called /\ ~risk.raised
    /\ risk.risk_score = 90
    /\ risk.nivel_risco = "Alto"

\* the model names of the memoized view
KnownModels ==
    IF CacheKey \notin DOMAIN tables \/ "modelo" \notin tables[CacheKey].df.cols THEN {}
    ELSE {tables[CacheKey].df.rows[i].modelo[1] :
             i \in {j \in DOMAIN tables[CacheKey].df.rows :
                        tables[CacheKey].df.rows[j].modelo # Null}}

\* the lower-cased text holds one of the words
TextHas(text, words) == \E w \in words : StrContains(StrLower(text), w)

RegionHints ==
    {<<"r", "e", "g", "i", "ã", "o">>, <<"r", "e", "g", "i", "a", "o">>,
     <<"s", "p">>, <<"r", "j">>, <<"m", "g">>}

PricingWords ==
    {<<"p", "r", "ê", "m", "i", "o">>, <<"p", "r", "e", "m", "i", "o">>,
     <<"p", "r", "e", "ç", "o">>, <<"p", "r", "e", "c", "o">>,
     <<"v", "a", "l", "o", "r">>, <<"c", "u", "s", "t", "o">>}

ClaimsWords ==
    {<<"s", "i", "n", "i", "s", "t", "r", "o">>, <<"a", "c", "i", "d", "e", "n", "t", "e">>,
     <<"c", "o", "l", "i", "s", "ã", "o">>, <<"r", "o", "u", "b", "o">>}

\* the known models the lower-cased text names
NamedModels(text) == {m \in KnownModels : TextHas(text, {StrLower(Chars(m))})}

\* C28: the intent of a message needs data exactly when its lower-cased text
\* holds a known model name, a region hint, a pricing word or a claims word;
\* the topic is claims with a claims word (also next to a pricing word),
\* pricing with a pricing word and no claims word, general otherwise; the
\* model entity is a known model the text names, and a named model marks the
\* policy table as needed.
C28_IntentClassification ==
    ret.op = "enrich" =>
        /\ ret.value.intent.needs_data <=>
               \/ NamedModels(ret.arg) # {}
               \/ TextHas(ret.arg, RegionHints)
               \/ TextHas(ret.arg, PricingWords)
               \/ TextHas(ret.arg, ClaimsWords)
        /\ TextHas(ret.arg, ClaimsWords) => ret.value.intent.query_type = "claims"
        /\ (TextHas(ret.arg, PricingWords) /\ ~TextHas(ret.arg, ClaimsWords))
               => ret.value.intent.query_type = "pricing"
        /\ (~TextHas(ret.arg, PricingWords) /\ ~TextHas(ret.arg, ClaimsWords))
               => ret.value.intent.query_type = "general"
        /\ "modelo" \in DOMAIN ret.value.intent.entities
               => ret.value.intent.entities.modelo \in NamedModels(ret.arg)
        /\ NamedModels(ret.arg) # {} =>
               /\ "modelo" \in DOMAIN ret.value.intent.entities
               /\ \E j \in DOMAIN ret.value.intent.tables_needed :
                      ret.value.intent.tables_needed[j] = "casco"

\* a message with a pricing word and a claims word is about claims
C28_Witness ==
    /\ ret.op = "enrich"
    /\ TextHas(ret.arg, PricingWords) /\ TextHas(ret.arg, ClaimsWords)
    /\ ret.value.intent.query_type = "claims"
    /\ ret.value.intent.needs_data

\* a message in capital letters names a known model
C28_ModelWitness ==
    /\ ret.op = "enrich"
    /\ ret.arg = <<"C", "i", "v", "i", "c">>
    /\ "modelo" \in DOMAIN ret.value.intent.entities
    /\ ret.value.intent.entities.modelo = "CIVIC"

\* C29: within one get, load_all, get_combined or estimate no table is
\* fetched twice; in particular a table whose fetch failed is not fetched
\* again by the same operation.
C29_NoRetries ==
    ret.op \in {"get", "load_all", "get_combined", "estimate"} =>
        \A i, j \in DOMAIN ret.fetched : ret.fetched[i] = ret.fetched[j] => i = j

====
